---------------------------- MODULE Spec2Model ----------------------------
(***************************************************************************)
(* Model of the "Read Together" recommendation service                     *)
(* (en-mac/sas-be-take-home): the request handler, the two reader          *)
(* goroutines, ResolveAuthorKeys, GetSubjectAuthorCounts and               *)
(* FindMostCommonSubject, as written in internal/handlers and              *)
(* internal/services.                                                      *)
(*                                                                         *)
(* Strings the code transforms (subjects, catalog keys) are sequences of   *)
(* characters or tokens, so that ToLower, TrimSpace and TrimPrefix are     *)
(* computed and not assumed.  Go maps are functions; a nil map or slice is *)
(* Nil and a non-nil map m is Some(m).                                     *)
(***************************************************************************)
EXTENDS Integers, Sequences, FiniteSets, TLC

(***************************************************************************)
(* Bounds of the model.                                                    *)
(***************************************************************************)
\* longest list of author names given to one ResolveAuthorKeys call
MaxNames == 2
\* longest list of authors given to one GetSubjectAuthorCounts call
MaxAuthors == 2
\* greatest per-reader weight of a subject in the FindMostCommonSubject inputs
MaxWeight == 4
\* longest list of works the catalog answers for a subject
MaxWorks == 3
\* greatest number of items given to a fan-out stage beyond its worker limit
MaxOver == 1
\* longest fauthors text of a row of the users table
MaxChars == 6

(***************************************************************************)
(* Program constants.                                                      *)
(***************************************************************************)
\* author_service.go:25  concurrency := 20
ResolveConcurrency == 20
\* book_service.go:441   concurrency = 20
SubjectConcurrency == 20
\* recommendations handler: resultsCh := make(chan subjectResult, 2)
ResultsChCap == 2
\* GetUserFavoriteAuthors: if i >= 5 { break }
FavoriteLimit == 5

\* GetRecommendedBooks: numWorkers := 10
NumWorkers == 10
\* GetRecommendedBooks: publishYear < currentYear-2
RecencyWindow == 2
\* GetRecommendedBooks: if len(recentBooks) > 3 { recentBooks = recentBooks[:3] }
TopBooks == 3
\* parseYear: a four-digit year between 1000 and 2999
MinYear == 1000
MaxYear == 2999
\* time.Now().Year() at the time of the request
CurrentYear == 2026

StatusOK == 200
StatusBadRequest == 400
StatusNotFound == 404
StatusInternalServerError == 500
StatusGatewayTimeout == 504

Readers == {1, 2}

Nil == <<>>
Some(x) == <<x>>
Val(o) == o[1]

(***************************************************************************)
(* Strings.                                                                *)
(***************************************************************************)
Chars == {" ", "F", "H", "S", "a", "f", "h", "i", "s"}

\* byte value of each character (Go compares strings bytewise)
CharCode ==
  (" " :> 32) @@ ("F" :> 70) @@ ("H" :> 72) @@ ("S" :> 83) @@ ("a" :> 97)
  @@ ("f" :> 102) @@ ("h" :> 104) @@ ("i" :> 105) @@ ("s" :> 115)

\* strings.ToLower, one character
LowerChar(c) ==
  CASE c = "F" -> "f"
    [] c = "H" -> "h"
    [] c = "S" -> "s"
    [] OTHER -> c

\* strings.ToLower
ToLower(s) == [i \in 1..Len(s) |-> LowerChar(s[i])]

RECURSIVE TrimLeft(_)
TrimLeft(s) ==
  IF s # <<>> /\ Head(s) = " " THEN TrimLeft(Tail(s)) ELSE s

RECURSIVE TrimRight(_)
TrimRight(s) ==
  IF s # <<>> /\ s[Len(s)] = " " THEN TrimRight(SubSeq(s, 1, Len(s) - 1)) ELSE s

\* strings.TrimSpace
TrimSpace(s) == TrimRight(TrimLeft(s))

\* the normalization without the trim
NormalizeSubjectNoTrim(subject) == ToLower(subject)

\* normalizedSubject := strings.ToLower(strings.TrimSpace(subject))
NormalizeSubject(subject) == ToLower(TrimSpace(subject))

\* a < b for Go strings (bytewise lexicographic order)
RECURSIVE StrLess(_, _)
StrLess(a, b) ==
  IF b = <<>> THEN FALSE
  ELSE IF a = <<>> THEN TRUE
  ELSE IF CharCode[Head(a)] # CharCode[Head(b)]
       THEN CharCode[Head(a)] < CharCode[Head(b)]
       ELSE StrLess(Tail(a), Tail(b))

\* strings.TrimPrefix(doc.Key, "/authors/"); a key is a sequence of tokens
TrimPrefix(key, prefix) ==
  IF key # <<>> /\ Head(key) = prefix THEN Tail(key) ELSE key

(***************************************************************************)
(* The catalog as the service sees it: what one request can be answered.   *)
(***************************************************************************)
\* models.Author's zero value (var selectedAuthor models.Author)
ZeroAuthor == [Name |-> "", Key |-> <<>>, WorkCount |-> 0]

\* candidates of search/authors.json: {name, key, work_count}
DocWells == [Name |-> "H. G. Wells", Key |-> <<"/authors/", "OL13066A">>, WorkCount |-> 2]
DocWellsJr == [Name |-> "H. G. Wells Jr", Key |-> <<"OL20A">>, WorkCount |-> 2]
DocWeir == [Name |-> "Andy Weir", Key |-> <<"/authors/", "OL7234434A">>, WorkCount |-> 0]
Docs == {DocWells, DocWellsJr, DocWeir}

DocLists == {<<>>} \cup {<<a>> : a \in Docs} \cup {<<a, b>> : a, b \in Docs}

\* a failed call (request, transport, status, read or parse error)
ErrResponse == [err |-> TRUE, docs |-> <<>>]
SearchResponses == {ErrResponse} \cup {[err |-> FALSE, docs |-> d] : d \in DocLists}

\* the favourite authors stored for the first sample user (setupDatabase)
StoredNames ==
  <<"Andy Weir", "Brandon Sanderson", "Arthur C. Clarke", "Ursula K. Le Guin", "H.G. Wells">>

VARIABLES
  \* the request context: TRUE once its deadline has elapsed
  ctxDone,
  \* ResolveAuthorKeys, one invocation per reader
  rkAuthors, rkResp, rkPc, rkIdx, rkSem, rkWg, rkMu, rkErrCh, authorKeys,
  rkWorker, rkRet,
  \* GetSubjectAuthorCounts, one invocation per reader
  saAuthors, saResp, saPc, saIdx, saSem, saWg, saMu, saErrCh, subjectAuthorCount,
  perAuthorSubjects, saWorker, saRet,
  \* RecommendationsHandler and its two reader goroutines
  db, user1IDStr, user2IDStr, hPc, hI, gPc, resultsCh, user1Subjects, user2Subjects,
  commonSubject, recommendedBooks, written,
  \* GetRecommendedBooks, the one invocation of a request
  bkPc, bkRet, bkResp, bkWorks, bkIdx, bkJobs, bkJobsClosed, bkInflight, bkActive,
  bkResults, bkErrCh

resolveVars ==
  <<rkAuthors, rkResp, rkPc, rkIdx, rkSem, rkWg, rkMu, rkErrCh, authorKeys,
    rkWorker, rkRet>>

aggVars ==
  <<saAuthors, saResp, saPc, saIdx, saSem, saWg, saMu, saErrCh, subjectAuthorCount,
    perAuthorSubjects, saWorker, saRet>>

booksVars ==
  <<bkPc, bkRet, bkResp, bkWorks, bkIdx, bkJobs, bkJobsClosed, bkInflight, bkActive,
    bkResults, bkErrCh>>

requestVars ==
  <<db, user1IDStr, user2IDStr, hPc, hI, gPc, resultsCh, user1Subjects, user2Subjects,
    commonSubject, recommendedBooks, written>>

handlerVars == <<requestVars, booksVars>>

vars == <<ctxDone, resolveVars, aggVars, handlerVars>>

(***************************************************************************)
(* ResolveAuthorKeys(ctx, authors)  (internal/services/author_service.go)  *)
(***************************************************************************)
\* a worker goroutine that the dispatch loop has not started yet
NoWorker == [pc |-> "none", docs |-> <<>>, selectedAuthor |-> ZeroAuthor, failed |-> FALSE]

NoReturn == [authors |-> <<>>, err |-> FALSE]

\* the selection loop over result.Docs, from index i on
RECURSIVE SelectLoop(_, _, _, _)
SelectLoop(docs, i, maxWorkCount, selectedAuthor) ==
  IF i > Len(docs) THEN selectedAuthor
  ELSE IF docs[i].WorkCount > maxWorkCount
       THEN SelectLoop(docs, i + 1, docs[i].WorkCount,
                       [Name |-> docs[i].Name,
                        Key |-> TrimPrefix(docs[i].Key, "/authors/"),
                        WorkCount |-> docs[i].WorkCount])
       ELSE SelectLoop(docs, i + 1, maxWorkCount, selectedAuthor)

\* the selection loop with >= for >: the last of several greatest candidates wins
RECURSIVE SelectLoopLastWins(_, _, _, _)
SelectLoopLastWins(docs, i, maxWorkCount, selectedAuthor) ==
  IF i > Len(docs) THEN selectedAuthor
  ELSE IF docs[i].WorkCount >= maxWorkCount
       THEN SelectLoopLastWins(docs, i + 1, docs[i].WorkCount,
                               [Name |-> docs[i].Name,
                                Key |-> TrimPrefix(docs[i].Key, "/authors/"),
                                WorkCount |-> docs[i].WorkCount])
       ELSE SelectLoopLastWins(docs, i + 1, maxWorkCount, selectedAuthor)

SelectAuthorLastWins(docs) == SelectLoopLastWins(docs, 1, -1, ZeroAuthor)

\* "Select the author with the highest work_count": maxWorkCount := -1
SelectAuthor(docs) == SelectLoop(docs, 1, -1, ZeroAuthor)

\* the call: fresh locals, the dispatch loop about to start
RkCall(r, names, resps) ==
  /\ rkAuthors' = [rkAuthors EXCEPT ![r] = names]
  /\ rkResp' = [rkResp EXCEPT ![r] = resps]
  /\ rkPc' = [rkPc EXCEPT ![r] = "loop"]
  /\ rkIdx' = [rkIdx EXCEPT ![r] = 1]
  /\ rkSem' = [rkSem EXCEPT ![r] = 0]
  /\ rkWg' = [rkWg EXCEPT ![r] = 0]
  /\ rkMu' = [rkMu EXCEPT ![r] = 0]
  /\ rkErrCh' = [rkErrCh EXCEPT ![r] = <<>>]
  /\ authorKeys' = [authorKeys EXCEPT ![r] = <<>>]
  /\ rkWorker' = [rkWorker EXCEPT ![r] = [i \in 1..Len(names) |-> NoWorker]]
  /\ rkRet' = [rkRet EXCEPT ![r] = NoReturn]

\* the dispatch loop that starts a goroutine without taking a slot first
RkDispatchUnbounded(r) ==
  /\ rkPc[r] = "loop"
  /\ rkIdx[r] <= Len(rkAuthors[r])
  /\ rkWg' = [rkWg EXCEPT ![r] = @ + 1]
  /\ rkSem' = [rkSem EXCEPT ![r] = @ + 1]
  /\ rkWorker' = [rkWorker EXCEPT ![r][rkIdx[r]].pc = "fetch"]
  /\ rkIdx' = [rkIdx EXCEPT ![r] = @ + 1]
  /\ UNCHANGED <<ctxDone, aggVars, handlerVars, rkAuthors, rkResp, rkPc, rkMu, rkErrCh, authorKeys, rkRet>>

\* for _, authorName := range authors { wg.Add(1); sem <- struct{}{}; go func() ... }
RkDispatch(r) ==
  /\ rkPc[r] = "loop"
  /\ rkIdx[r] <= Len(rkAuthors[r])
  /\ rkSem[r] < ResolveConcurrency
  /\ rkWg' = [rkWg EXCEPT ![r] = @ + 1]
  /\ rkSem' = [rkSem EXCEPT ![r] = @ + 1]
  /\ rkWorker' = [rkWorker EXCEPT ![r][rkIdx[r]].pc = "fetch"]
  /\ rkIdx' = [rkIdx EXCEPT ![r] = @ + 1]
  /\ UNCHANGED <<ctxDone, aggVars, handlerVars, rkAuthors, rkResp, rkPc, rkMu, rkErrCh, authorKeys, rkRet>>

\* the worker's request, read, parse and selection (lines 42-116); every
\* failure, and an empty candidate list, sends on errCh and returns
RkFetch(r, i) ==
  /\ rkWorker[r][i].pc = "fetch"
  /\ LET resp == IF ctxDone THEN ErrResponse ELSE rkResp[r][i] IN
       IF resp.err \/ Len(resp.docs) = 0
       THEN /\ rkErrCh' = [rkErrCh EXCEPT ![r] = Append(@, rkAuthors[r][i])]
            /\ rkWorker' = [rkWorker EXCEPT ![r][i].pc = "exit",
                                            ![r][i].failed = TRUE]
       ELSE /\ rkWorker' = [rkWorker EXCEPT ![r][i].pc = "lock",
                                            ![r][i].docs = resp.docs,
                                            ![r][i].selectedAuthor = SelectAuthor(resp.docs)]
            /\ UNCHANGED rkErrCh
  /\ UNCHANGED <<ctxDone, aggVars, handlerVars, rkAuthors, rkResp, rkPc, rkIdx, rkSem, rkWg, rkMu, authorKeys, rkRet>>

\* the lock that is taken whoever holds it
RkLockFree(r, i) ==
  /\ rkWorker[r][i].pc = "lock"
  /\ rkMu' = [rkMu EXCEPT ![r] = i]
  /\ rkWorker' = [rkWorker EXCEPT ![r][i].pc = "append"]
  /\ UNCHANGED <<ctxDone, aggVars, handlerVars, rkAuthors, rkResp, rkPc, rkIdx, rkSem, rkWg, rkErrCh, authorKeys, rkRet>>

\* mu.Lock()
RkLock(r, i) ==
  /\ rkWorker[r][i].pc = "lock"
  /\ rkMu[r] = 0
  /\ rkMu' = [rkMu EXCEPT ![r] = i]
  /\ rkWorker' = [rkWorker EXCEPT ![r][i].pc = "append"]
  /\ UNCHANGED <<ctxDone, aggVars, handlerVars, rkAuthors, rkResp, rkPc, rkIdx, rkSem, rkWg, rkErrCh, authorKeys, rkRet>>

\* authorKeys = append(authorKeys, selectedAuthor); mu.Unlock()
RkAppend(r, i) ==
  /\ rkWorker[r][i].pc = "append"
  /\ rkMu[r] = i
  /\ authorKeys' = [authorKeys EXCEPT ![r] = Append(@, rkWorker[r][i].selectedAuthor)]
  /\ rkMu' = [rkMu EXCEPT ![r] = 0]
  /\ rkWorker' = [rkWorker EXCEPT ![r][i].pc = "exit"]
  /\ UNCHANGED <<ctxDone, aggVars, handlerVars, rkAuthors, rkResp, rkPc, rkIdx, rkSem, rkWg, rkErrCh, rkRet>>

\* the return that keeps the goroutine's slot
RkExitKeepsSlot(r, i) ==
  /\ rkWorker[r][i].pc = "exit"
  /\ rkWg' = [rkWg EXCEPT ![r] = @ - 1]
  /\ rkWorker' = [rkWorker EXCEPT ![r][i].pc = "done", ![r][i].docs = <<>>]
  /\ UNCHANGED <<ctxDone, aggVars, handlerVars, rkAuthors, rkResp, rkPc, rkIdx, rkSem, rkMu, rkErrCh, authorKeys, rkRet>>

\* the deferred calls: <-sem, then wg.Done(); the goroutine's locals die
RkExit(r, i) ==
  /\ rkWorker[r][i].pc = "exit"
  /\ rkSem' = [rkSem EXCEPT ![r] = @ - 1]
  /\ rkWg' = [rkWg EXCEPT ![r] = @ - 1]
  /\ rkWorker' = [rkWorker EXCEPT ![r][i].pc = "done", ![r][i].docs = <<>>]
  /\ UNCHANGED <<ctxDone, aggVars, handlerVars, rkAuthors, rkResp, rkPc, rkIdx, rkMu, rkErrCh, authorKeys, rkRet>>

\* the return of what was resolved, whatever failed
RkResultPartial(errCh, keys) == [authors |-> keys, err |-> FALSE]

\* what the call returns once wg.Wait() is over (lines 126-138)
RkResult(errCh, keys) ==
  IF Len(errCh) > 0
  THEN [authors |-> <<>>, err |-> TRUE]
  ELSE [authors |-> keys, err |-> FALSE]

\* wg.Wait(); close(errCh); if len(errCh) > 0 { return nil, err }; return authorKeys, nil
RkReturn(r) ==
  /\ rkPc[r] = "loop"
  /\ rkIdx[r] > Len(rkAuthors[r])
  /\ rkWg[r] = 0
  /\ rkRet' = [rkRet EXCEPT ![r] = RkResult(rkErrCh[r], authorKeys[r])]
  /\ rkPc' = [rkPc EXCEPT ![r] = "ret"]
  /\ UNCHANGED <<ctxDone, aggVars, handlerVars, rkAuthors, rkResp, rkIdx, rkSem, rkWg, rkMu, rkErrCh, authorKeys, rkWorker>>

RkWorkers(r) == 1..Len(rkAuthors[r])

ResolveIdle ==
  /\ rkAuthors = [r \in Readers |-> <<>>]
  /\ rkResp = [r \in Readers |-> <<>>]
  /\ rkPc = [r \in Readers |-> "idle"]
  /\ rkIdx = [r \in Readers |-> 1]
  /\ rkSem = [r \in Readers |-> 0]
  /\ rkWg = [r \in Readers |-> 0]
  /\ rkMu = [r \in Readers |-> 0]
  /\ rkErrCh = [r \in Readers |-> <<>>]
  /\ authorKeys = [r \in Readers |-> <<>>]
  /\ rkWorker = [r \in Readers |-> <<>>]
  /\ rkRet = [r \in Readers |-> NoReturn]

(***************************************************************************)
(* GetSubjectAuthorCounts(ctx, authors)                                    *)
(* (internal/services/book_service.go, lines 433-553)                      *)
(***************************************************************************)
\* raw subject strings as the catalog spells them
RawSubjects ==
  {<<"F", "a">>, <<"f", "a", " ">>, <<" ", "H", "i">>, <<" ", "h", "i">>, <<"s", "f">>, <<" ">>}

\* works.json answers: a failed call, or the entries with their subjects
ErrWorks == [err |-> TRUE, entries |-> <<>>]
WorksResponses ==
  {ErrWorks,
   [err |-> FALSE, entries |-> <<>>],
   [err |-> FALSE, entries |-> <<[Subjects |-> << <<"F", "a">>, <<"f", "a", " ">> >>]>>],
   [err |-> FALSE, entries |-> <<[Subjects |-> << <<"f", "a", " ">> >>],
                                 [Subjects |-> << <<"F", "a">>, <<" ", "H", "i">> >>]>>],
   [err |-> FALSE, entries |-> <<[Subjects |-> << <<"s", "f">> >>], [Subjects |-> <<>>]>>],
   [err |-> FALSE, entries |-> <<[Subjects |-> << <<" ", "h", "i">>, <<" ">> >>]>>]}

\* the authors a call can be given: what ResolveAuthorKeys can select
AuthorPool == {SelectAuthor(<<DocWells>>), SelectAuthor(<<DocWeir>>)}

RECURSIVE SeqsUpTo(_, _)
SeqsUpTo(S, n) ==
  IF n = 0 THEN {<<>>}
  ELSE SeqsUpTo(S, n - 1) \cup {Append(q, x) : q \in SeqsUpTo(S, n - 1), x \in S}

\* every ordering of the set S (the order a Go map range may yield)
Orderings(S) ==
  {q \in [1..Cardinality(S) -> S] : \A j, k \in 1..Cardinality(S) : j # k => q[j] # q[k]}

NoSaWorker == [pc |-> "none", subjectsSet |-> {}, failed |-> FALSE]

NoSaReturn == [Aggregate |-> Nil, PerAuthor |-> Nil, err |-> FALSE]

\* every subject occurrence of every work, as pairs, so that a subject two
\* works carry is there twice: the collection without the per-author set
SubjectsPerWork(entries) ==
  UNION {{<<w, k>> : k \in 1..Len(entries[w].Subjects)} : w \in 1..Len(entries)}

\* subjectsSet: the normalized subjects of every work of the answer
SubjectsSetOf(entries) ==
  UNION {{NormalizeSubject(entries[w].Subjects[k]) : k \in 1..Len(entries[w].Subjects)} :
           w \in 1..Len(entries)}

\* a missing key reads as 0
Count(m, s) == IF s \in DOMAIN m THEN m[s] ELSE 0

\* the merge that replaces the shared map by the worker's own counts
MergeCountsOverwrite(m, subjectsSet) ==
  [s \in subjectsSet |-> Count(m, s) + 1]

\* for subject := range subjectsSet { subjectAuthorCount[subject]++ }
MergeCounts(m, subjectsSet) ==
  [s \in DOMAIN m \cup subjectsSet |-> Count(m, s) + (IF s \in subjectsSet THEN 1 ELSE 0)]

\* perAuthorSubjects[author.Name] = append(perAuthorSubjects[author.Name], subject),
\* for the subjects in the order `order`
MergePerAuthor(m, name, order) ==
  IF Len(order) = 0 THEN m
  ELSE [n \in DOMAIN m \cup {name} |->
          IF n = name THEN (IF n \in DOMAIN m THEN m[n] ELSE <<>>) \o order ELSE m[n]]

SaWorkers(r) == 1..Len(saAuthors[r])

\* the call: fresh maps and locals, the dispatch loop about to start
SaCall(r, authors, resps) ==
  /\ saAuthors' = [saAuthors EXCEPT ![r] = authors]
  /\ saResp' = [saResp EXCEPT ![r] = resps]
  /\ saPc' = [saPc EXCEPT ![r] = "loop"]
  /\ saIdx' = [saIdx EXCEPT ![r] = 1]
  /\ saSem' = [saSem EXCEPT ![r] = 0]
  /\ saWg' = [saWg EXCEPT ![r] = 0]
  /\ saMu' = [saMu EXCEPT ![r] = 0]
  /\ saErrCh' = [saErrCh EXCEPT ![r] = <<>>]
  /\ subjectAuthorCount' = [subjectAuthorCount EXCEPT ![r] = <<>>]
  /\ perAuthorSubjects' = [perAuthorSubjects EXCEPT ![r] = <<>>]
  /\ saWorker' = [saWorker EXCEPT ![r] = [i \in 1..Len(authors) |-> NoSaWorker]]
  /\ saRet' = [saRet EXCEPT ![r] = NoSaReturn]

\* for _, author := range authors { wg.Add(1); sem <- struct{}{}; go func(author) ... }
SaDispatch(r) ==
  /\ saPc[r] = "loop"
  /\ saIdx[r] <= Len(saAuthors[r])
  /\ saSem[r] < SubjectConcurrency
  /\ saWg' = [saWg EXCEPT ![r] = @ + 1]
  /\ saSem' = [saSem EXCEPT ![r] = @ + 1]
  /\ saWorker' = [saWorker EXCEPT ![r][saIdx[r]].pc = "fetch"]
  /\ saIdx' = [saIdx EXCEPT ![r] = @ + 1]
  /\ UNCHANGED <<ctxDone, resolveVars, handlerVars, saAuthors, saResp, saPc, saMu, saErrCh,
                 subjectAuthorCount, perAuthorSubjects, saRet>>

\* the worker's request, read and parse (each failure sends on errCh and
\* returns) and the collection of subjectsSet (lines 459-523)
SaFetch(r, i) ==
  /\ saWorker[r][i].pc = "fetch"
  /\ LET resp == IF ctxDone THEN ErrWorks ELSE saResp[r][i] IN
       IF resp.err
       THEN /\ saErrCh' = [saErrCh EXCEPT ![r] = Append(@, saAuthors[r][i].Name)]
            /\ saWorker' = [saWorker EXCEPT ![r][i].pc = "exit", ![r][i].failed = TRUE]
       ELSE /\ saWorker' = [saWorker EXCEPT ![r][i].pc = "lock",
                                            ![r][i].subjectsSet = SubjectsSetOf(resp.entries)]
            /\ UNCHANGED saErrCh
  /\ UNCHANGED <<ctxDone, resolveVars, handlerVars, saAuthors, saResp, saPc, saIdx, saSem, saWg,
                 saMu, subjectAuthorCount, perAuthorSubjects, saRet>>

\* mu.Lock()
SaLock(r, i) ==
  /\ saWorker[r][i].pc = "lock"
  /\ saMu[r] = 0
  /\ saMu' = [saMu EXCEPT ![r] = i]
  /\ saWorker' = [saWorker EXCEPT ![r][i].pc = "merge"]
  /\ UNCHANGED <<ctxDone, resolveVars, handlerVars, saAuthors, saResp, saPc, saIdx, saSem, saWg,
                 saErrCh, subjectAuthorCount, perAuthorSubjects, saRet>>

\* the update that counts every work carrying the subject (no per-author set)
SaMergePerWork(r, i) ==
  /\ saWorker[r][i].pc = "merge"
  /\ saMu[r] = i
  /\ LET entries == saResp[r][i].entries
         occ == SubjectsPerWork(entries)
         m == subjectAuthorCount[r]
     IN subjectAuthorCount' =
          [subjectAuthorCount EXCEPT ![r] =
             [s \in DOMAIN m \cup saWorker[r][i].subjectsSet |->
                Count(m, s)
                  + Cardinality({o \in occ :
                                  NormalizeSubject(entries[o[1]].Subjects[o[2]]) = s})]]
  /\ \E order \in Orderings(saWorker[r][i].subjectsSet) :
       perAuthorSubjects' =
         [perAuthorSubjects EXCEPT ![r] = MergePerAuthor(@, saAuthors[r][i].Name, order)]
  /\ saMu' = [saMu EXCEPT ![r] = 0]
  /\ saWorker' = [saWorker EXCEPT ![r][i].pc = "exit"]
  /\ UNCHANGED <<ctxDone, resolveVars, handlerVars, saAuthors, saResp, saPc, saIdx, saSem, saWg,
                 saErrCh, saRet>>

\* the update of both maps under the lock, then mu.Unlock() (lines 526-531)
SaMerge(r, i) ==
  /\ saWorker[r][i].pc = "merge"
  /\ saMu[r] = i
  /\ subjectAuthorCount' =
       [subjectAuthorCount EXCEPT ![r] = MergeCounts(@, saWorker[r][i].subjectsSet)]
  /\ \E order \in Orderings(saWorker[r][i].subjectsSet) :
       perAuthorSubjects' =
         [perAuthorSubjects EXCEPT ![r] = MergePerAuthor(@, saAuthors[r][i].Name, order)]
  /\ saMu' = [saMu EXCEPT ![r] = 0]
  /\ saWorker' = [saWorker EXCEPT ![r][i].pc = "exit"]
  /\ UNCHANGED <<ctxDone, resolveVars, handlerVars, saAuthors, saResp, saPc, saIdx, saSem, saWg,
                 saErrCh, saRet>>

\* the deferred calls: <-sem, then wg.Done()
SaExit(r, i) ==
  /\ saWorker[r][i].pc = "exit"
  /\ saSem' = [saSem EXCEPT ![r] = @ - 1]
  /\ saWg' = [saWg EXCEPT ![r] = @ - 1]
  /\ saWorker' = [saWorker EXCEPT ![r][i].pc = "done"]
  /\ UNCHANGED <<ctxDone, resolveVars, handlerVars, saAuthors, saResp, saPc, saIdx, saMu,
                 saErrCh, subjectAuthorCount, perAuthorSubjects, saRet>>

\* what the call returns once wg.Wait() is over (lines 536-552)
SaResult(errCh, aggregate, perAuthor) ==
  IF Len(errCh) > 0
  THEN [Aggregate |-> Nil, PerAuthor |-> Nil, err |-> TRUE]
  ELSE [Aggregate |-> Some(aggregate), PerAuthor |-> Some(perAuthor), err |-> FALSE]

\* wg.Wait(); close(errCh); if len(errCh) > 0 { return SubjectAuthorResult{}, err }; return ...
SaReturn(r) ==
  /\ saPc[r] = "loop"
  /\ saIdx[r] > Len(saAuthors[r])
  /\ saWg[r] = 0
  /\ saRet' = [saRet EXCEPT ![r] =
                 SaResult(saErrCh[r], subjectAuthorCount[r], perAuthorSubjects[r])]
  /\ saPc' = [saPc EXCEPT ![r] = "ret"]
  /\ UNCHANGED <<ctxDone, resolveVars, handlerVars, saAuthors, saResp, saIdx, saSem, saWg, saMu,
                 saErrCh, subjectAuthorCount, perAuthorSubjects, saWorker>>

AggIdle ==
  /\ saAuthors = [r \in Readers |-> <<>>]
  /\ saResp = [r \in Readers |-> <<>>]
  /\ saPc = [r \in Readers |-> "idle"]
  /\ saIdx = [r \in Readers |-> 1]
  /\ saSem = [r \in Readers |-> 0]
  /\ saWg = [r \in Readers |-> 0]
  /\ saMu = [r \in Readers |-> 0]
  /\ saErrCh = [r \in Readers |-> <<>>]
  /\ subjectAuthorCount = [r \in Readers |-> <<>>]
  /\ perAuthorSubjects = [r \in Readers |-> <<>>]
  /\ saWorker = [r \in Readers |-> <<>>]
  /\ saRet = [r \in Readers |-> NoSaReturn]

(***************************************************************************)
(* FindMostCommonSubject(user1Subjects, user2Subjects)                     *)
(* (internal/services/book_service.go, lines 556-586)                      *)
(***************************************************************************)
\* a nil map reads as the empty map
MapOf(o) == IF o = Nil THEN <<>> ELSE Val(o)

\* commonSubjects[subject] = count1 + count2, for the subjects of both maps
CommonSubjects(user1, user2) ==
  [subject \in DOMAIN user1 \cap DOMAIN user2 |-> user1[subject] + user2[subject]]

\* the selection that takes every subject of the first map as a candidate
\* (no `exists` test: a subject missing from the second map counts 0 there)
FindMostCommonSubjectNoExistsTest(user1, user2) ==
  LET total == [subject \in DOMAIN user1 |-> user1[subject] + Count(user2, subject)] IN
  IF DOMAIN total = {}
  THEN {[subject |-> <<>>, err |-> TRUE]}
  ELSE {[subject |-> s, err |-> FALSE] :
          s \in {s \in DOMAIN total : \A t \in DOMAIN total : total[t] <= total[s]}}

\* Every value a call can return.  subjectCounts is filled in the order of a
\* Go map range, which is not fixed, and sort.Slice orders by Count alone:
\* subjectCounts[0] is any one of the subjects of greatest Count.
FindMostCommonSubject(user1, user2) ==
  LET commonSubjects == CommonSubjects(user1, user2) IN
  IF DOMAIN commonSubjects = {}
  THEN {[subject |-> <<>>, err |-> TRUE]}
  ELSE {[subject |-> s, err |-> FALSE] :
          s \in {s \in DOMAIN commonSubjects :
                   \A t \in DOMAIN commonSubjects : commonSubjects[t] <= commonSubjects[s]}}

\* The loop of lines 389-397 over user1Subjects in the order `order`:
\* a subject of both maps whose totalCount is greater than highestCount
\* becomes mostCommonSubject.
RECURSIVE MostCommonLoop(_, _, _, _, _)
MostCommonLoop(order, k, user1, user2, acc) ==
  IF k > Len(order)
  THEN acc
  ELSE LET subject == order[k]
           totalCount == user1[subject] + Count(user2, subject)
       IN MostCommonLoop(order, k + 1, user1, user2,
            IF subject \in DOMAIN user2 /\ totalCount > acc.highestCount
            THEN [mostCommonSubject |-> subject, highestCount |-> totalCount]
            ELSE acc)

\* FindMostCommonSubject as lines 383-404 of book_service.go define it: a
\* running maximum over a range of user1Subjects, starting from the subject
\* "" and the count 0, and the error when mostCommonSubject is "" at the end.
\* Every value a call can return, over the orders of the map range.
FindMostCommonSubjectRunningMax(user1, user2) ==
  {LET acc == MostCommonLoop(order, 1, user1, user2,
                             [mostCommonSubject |-> <<>>, highestCount |-> 0])
   IN IF acc.mostCommonSubject = <<>>
      THEN [subject |-> <<>>, err |-> TRUE]
      ELSE [subject |-> acc.mostCommonSubject, err |-> FALSE] :
     order \in Orderings(DOMAIN user1)}

(***************************************************************************)
(* GetRecommendedBooks(ctx, subject)  (src/unnamed/part_005)               *)
(***************************************************************************)
\* a publish_date is a sequence of words; a word is a run of digits (Num, its
\* value) or anything else (Word)
Num(n) == [isNum |-> TRUE, val |-> n]

Word == [isNum |-> FALSE, val |-> 0]

\* parseYear: the leftmost word that is a four-digit number from 1000 to
\* 2999 (\b(1[0-9]{3}|2[0-9]{3})\b), or 0
RECURSIVE parseYear(_)
parseYear(publishDate) ==
  IF publishDate = <<>>
  THEN 0
  ELSE LET w == Head(publishDate) IN
         IF w.isNum /\ MinYear <= w.val /\ w.val <= MaxYear
         THEN w.val
         ELSE parseYear(Tail(publishDate))

\* lines 183-189: the parsed year of publish_date when there is one,
\* first_publish_year otherwise
PublishYear(book) ==
  IF book.PublishDate # <<>> /\ parseYear(book.PublishDate) # 0
  THEN parseYear(book.PublishDate)
  ELSE book.FirstPublishYear

\* the validation without its test for future years
QualifiesPastOnly(book) ==
  ~(PublishYear(book) = 0 \/ PublishYear(book) < CurrentYear - RecencyWindow)

\* line 192: the books that are not skipped
Qualifies(book) ==
  ~(\/ PublishYear(book) = 0
    \/ PublishYear(book) < CurrentYear - RecencyWindow
    \/ PublishYear(book) > CurrentYear)

\* works of a subject response (first_publish_year, publish_date)
BookRecent == [FirstPublishYear |-> CurrentYear - 1, PublishDate |-> <<>>]
BookReissued ==
  [FirstPublishYear |-> CurrentYear - 3, PublishDate |-> <<Word, Num(CurrentYear)>>]
BookUndated == [FirstPublishYear |-> 0, PublishDate |-> <<Word, Num(10 * CurrentYear)>>]
BookOld == [FirstPublishYear |-> CurrentYear - 3, PublishDate |-> <<>>]
BookFuture == [FirstPublishYear |-> 0, PublishDate |-> <<Num(CurrentYear + 1)>>]

BookShapes == {BookRecent, BookReissued, BookUndated, BookOld, BookFuture}

\* a response with more works that qualify than are returned
BooksOverTop == <<BookReissued, BookRecent, BookRecent, BookRecent>>


\* the answer to a work-detail request: a request error ("do"), a read or
\* parse error ("parse"), or a body whose description field is absent, a
\* string s, an object (whose value is absent, a string vs, or something
\* else), or of another shape
DescResponse(err, t, s, vt, vs) == [err |-> err, t |-> t, s |-> s, vt |-> vt, vs |-> vs]

DescDoError == DescResponse("do", "absent", "", "absent", "")

DescResponses ==
  {DescDoError,
   DescResponse("parse", "absent", "", "absent", ""),
   DescResponse("none", "absent", "", "absent", ""),
   DescResponse("none", "string", "X", "absent", ""),
   DescResponse("none", "string", "", "absent", ""),
   DescResponse("none", "object", "", "string", "X"),
   DescResponse("none", "object", "", "other", ""),
   DescResponse("none", "other", "", "absent", "")}

\* the answers of a catalog to the work-detail requests that are not about
\* the shape of the description
DescResponsesCore ==
  {DescDoError,
   DescResponse("parse", "absent", "", "absent", ""),
   DescResponse("none", "absent", "", "absent", ""),
   DescResponse("none", "string", "X", "absent", "")}

\* what the catalog does during one call: its answer to the subject request
\* (an error, or works) and the answers it can give to a work-detail request
ErrSubject == [err |-> TRUE, works |-> <<>>, descs |-> {DescDoError}]

SubjectResponses ==
  {ErrSubject} \cup
  {[err |-> FALSE, works |-> w, descs |-> DescResponsesCore] :
     w \in SeqsUpTo(BookShapes, MaxWorks) \cup {BooksOverTop}}

\* the description that keeps the text of a string only
ExtractDescriptionStringOnly(resp) ==
  IF resp.err = "none" /\ resp.t = "string" THEN resp.s ELSE ""

\* lines 104, 147-154: the switch on the type of descResult.Description
ExtractDescription(resp) ==
  CASE resp.err # "none" -> ""
    [] resp.t = "string" -> resp.s
    [] resp.t = "object" /\ resp.vt = "string" -> resp.vs
    [] OTHER -> ""

\* lines 158-167: the Work of a job; Description stays nil for ""
WorkOf(job, description) ==
  [Title |-> job.Title,
   FirstPublishYear |-> job.FirstPublishYear,
   Description |-> IF description # "" THEN Some(description) ELSE Nil]

NoWork == [Title |-> 0, FirstPublishYear |-> 0, Description |-> Nil]

NoBooks == [books |-> <<>>, err |-> FALSE]

\* the workers that are between two jobs
IdleWorkers == bkActive - Cardinality(bkInflight)

\* the selection that keeps the order of arrival
SortedOrdersUnsorted(works) == {[k \in 1..Len(works) |-> k]}

\* lines 238-240: the orders sort.Slice can leave the works in (it sorts by
\* FirstPublishYear, descending, and is not stable)
SortedOrders(works) ==
  {o \in Orderings(1..Len(works)) :
     \A k \in 1..(Len(works) - 1) :
       works[o[k]].FirstPublishYear >= works[o[k + 1]].FirstPublishYear}

\* lines 243-245
TopThree(works) == IF Len(works) > TopBooks THEN SubSeq(works, 1, TopBooks) ELSE works

\* the call: the catalog will answer the subject request with resp
BkCall(resp) ==
  /\ bkPc = "idle"
  /\ bkPc' = "subject"
  /\ bkResp' = resp
  /\ UNCHANGED <<bkRet, bkWorks, bkIdx, bkJobs, bkJobsClosed, bkInflight, bkActive,
                 bkResults, bkErrCh>>

\* lines 48-100: the subject request; on success the workers are started
BkFetchSubject ==
  /\ bkPc = "subject"
  /\ LET resp == IF ctxDone THEN ErrSubject ELSE bkResp IN
       IF resp.err
       THEN /\ bkRet' = [books |-> <<>>, err |-> TRUE]
            /\ bkPc' = "ret"
            /\ UNCHANGED <<bkWorks, bkActive>>
       ELSE /\ bkWorks' = resp.works
            /\ bkActive' = NumWorkers
            /\ bkPc' = "enqueue"
            /\ UNCHANGED bkRet
  /\ UNCHANGED <<ctxDone, resolveVars, aggVars, requestVars, bkResp, bkIdx, bkJobs,
                 bkJobsClosed, bkInflight, bkResults, bkErrCh>>

\* lines 181-212: one turn of the enqueue loop (a work's title stands for
\* its place in the response)
BkEnqueue ==
  /\ bkPc = "enqueue"
  /\ bkIdx <= Len(bkWorks)
  /\ LET book == bkWorks[bkIdx] IN
       IF Qualifies(book)
       THEN bkJobs' = Append(bkJobs, [Title |-> bkIdx,
                                      FirstPublishYear |-> book.FirstPublishYear,
                                      PublishDate |-> book.PublishDate])
       ELSE UNCHANGED bkJobs
  /\ bkIdx' = bkIdx + 1
  /\ UNCHANGED <<ctxDone, resolveVars, aggVars, requestVars, bkPc, bkRet, bkResp, bkWorks,
                 bkJobsClosed, bkInflight, bkActive, bkResults, bkErrCh>>

\* the end of the enqueue loop that leaves jobs open
BkCloseJobsForgets ==
  /\ bkPc = "enqueue"
  /\ bkIdx > Len(bkWorks)
  /\ bkJobsClosed' = FALSE
  /\ bkPc' = "collect"
  /\ UNCHANGED <<ctxDone, resolveVars, aggVars, requestVars, bkRet, bkResp, bkWorks, bkIdx,
                 bkJobs, bkInflight, bkActive, bkResults, bkErrCh>>

\* line 213: close(jobs)
BkCloseJobs ==
  /\ bkPc = "enqueue"
  /\ bkIdx > Len(bkWorks)
  /\ bkJobsClosed' = TRUE
  /\ bkPc' = "collect"
  /\ UNCHANGED <<ctxDone, resolveVars, aggVars, requestVars, bkRet, bkResp, bkWorks, bkIdx,
                 bkJobs, bkInflight, bkActive, bkResults, bkErrCh>>

\* line 102: a worker receives a job
BkTake ==
  /\ bkPc \in {"enqueue", "collect"}
  /\ IdleWorkers > 0
  /\ Len(bkJobs) > 0
  /\ bkJobs' = Tail(bkJobs)
  /\ bkInflight' = bkInflight \cup
       {[job |-> Head(bkJobs), stage |-> "fetch", resp |-> DescDoError, work |-> NoWork]}
  /\ UNCHANGED <<ctxDone, resolveVars, aggVars, requestVars, bkPc, bkRet, bkResp, bkWorks,
                 bkIdx, bkJobsClosed, bkActive, bkResults, bkErrCh>>

\* lines 103-167: the work-detail request (errCh is read for logging only:
\* it is kept as the set of the titles sent).  A request error sends on errCh
\* and the worker goes on to its next job; a read or parse error sends on
\* errCh and leaves the closure only, so the Work is still built.
BkDescribe(f) ==
  /\ f \in bkInflight
  /\ f.stage = "fetch"
  /\ \E resp \in bkResp.descs \cup {DescDoError} :
       /\ ctxDone => resp = DescDoError
       /\ IF resp.err = "do"
          THEN /\ bkErrCh' = bkErrCh \cup {f.job.Title}
               /\ bkInflight' = bkInflight \ {f}
          ELSE /\ bkErrCh' = IF resp.err = "parse" THEN bkErrCh \cup {f.job.Title} ELSE bkErrCh
               /\ bkInflight' = (bkInflight \ {f}) \cup
                    {[job |-> f.job, stage |-> "send", resp |-> resp,
                      work |-> WorkOf(f.job, ExtractDescription(resp))]}
  /\ UNCHANGED <<ctxDone, resolveVars, aggVars, requestVars, bkPc, bkRet, bkResp, bkWorks,
                 bkIdx, bkJobs, bkJobsClosed, bkActive, bkResults>>

\* lines 170-171: case results <- work
BkSend(f) ==
  /\ f \in bkInflight
  /\ f.stage = "send"
  /\ bkResults' = Append(bkResults, f.work)
  /\ bkInflight' = bkInflight \ {f}
  /\ UNCHANGED <<ctxDone, resolveVars, aggVars, requestVars, bkPc, bkRet, bkResp, bkWorks,
                 bkIdx, bkJobs, bkJobsClosed, bkActive, bkErrCh>>

\* lines 172-173: case <-ctx.Done(): the worker returns with its work unsent
BkAbandon(f) ==
  /\ f \in bkInflight
  /\ f.stage = "send"
  /\ ctxDone
  /\ bkInflight' = bkInflight \ {f}
  /\ bkActive' = bkActive - 1
  /\ UNCHANGED <<ctxDone, resolveVars, aggVars, requestVars, bkPc, bkRet, bkResp, bkWorks,
                 bkIdx, bkJobs, bkJobsClosed, bkResults, bkErrCh>>

\* lines 101-102, 175: jobs is closed and empty, so the range loop of every
\* worker that is between two jobs ends (these workers have nothing else to
\* do: their returns are taken together)
BkWorkerExit ==
  /\ bkPc = "collect"
  /\ bkJobsClosed
  /\ Len(bkJobs) = 0
  /\ IdleWorkers > 0
  /\ bkActive' = bkActive - IdleWorkers
  /\ UNCHANGED <<ctxDone, resolveVars, aggVars, requestVars, bkPc, bkRet, bkResp, bkWorks,
                 bkIdx, bkJobs, bkJobsClosed, bkInflight, bkResults, bkErrCh>>

\* lines 215-247: all workers are done, results and errCh are closed and
\* read to their end; no work is an error, otherwise the works are sorted
\* and cut to three
BkReturn ==
  /\ bkPc = "collect"
  /\ bkActive = 0
  /\ IF Len(bkResults) = 0
     THEN bkRet' = [books |-> <<>>, err |-> TRUE]
     ELSE \E o \in SortedOrders(bkResults) :
            bkRet' = [books |-> TopThree([k \in 1..Len(bkResults) |-> bkResults[o[k]]]),
                      err |-> FALSE]
  /\ bkPc' = "ret"
  /\ UNCHANGED <<ctxDone, resolveVars, aggVars, requestVars, bkResp, bkWorks, bkIdx, bkJobs,
                 bkJobsClosed, bkInflight, bkActive, bkResults, bkErrCh>>

BooksIdle ==
  /\ bkPc = "idle"
  /\ bkRet = NoBooks
  /\ bkResp = ErrSubject
  /\ bkWorks = <<>>
  /\ bkIdx = 1
  /\ bkJobs = <<>>
  /\ bkJobsClosed = FALSE
  /\ bkInflight = {}
  /\ bkActive = 0
  /\ bkResults = <<>>
  /\ bkErrCh = {}

(***************************************************************************)
(* The user store (internal/database): GetUserFavoriteAuthors.             *)
(***************************************************************************)
\* strings.Split(s, ";"), from the field that starts with the characters of
\* cur on: one more field than s has separators ("" gives one empty field)
RECURSIVE SplitFrom(_, _)
SplitFrom(s, cur) ==
  IF s = <<>> THEN <<cur>>
  ELSE IF Head(s) = ";" THEN <<cur>> \o SplitFrom(Tail(s), <<>>)
  ELSE SplitFrom(Tail(s), Append(cur, Head(s)))

Split(s) == SplitFrom(s, <<>>)

\* the query that returns every name of the row
GetUserFavoriteAuthorsAll(store, userID) ==
  IF userID \notin DOMAIN store
  THEN [authors |-> <<>>, err |-> TRUE]
  ELSE LET authors == Split(store[userID])
       IN [authors |-> [k \in 1..Len(authors) |-> TrimSpace(authors[k])], err |-> FALSE]

\* GetUserFavoriteAuthors(db, userID): sql.ErrNoRows is an error; otherwise
\* the first five names of the row's fauthors, trimmed
GetUserFavoriteAuthors(store, userID) ==
  IF userID \notin DOMAIN store
  THEN [authors |-> <<>>, err |-> TRUE]
  ELSE LET authors == Split(store[userID])
           n == IF Len(authors) < FavoriteLimit THEN Len(authors) ELSE FavoriteLimit
       IN [authors |-> [k \in 1..n |-> TrimSpace(authors[k])], err |-> FALSE]

\* the users table of a request, id -> fauthors (a text is the sequence of
\* its words, spaces and separators): two users, each with one favorite author
Users ==
  (1 :> <<"Andy", " ", "Weir">>) @@ (2 :> <<" ", "Arthur", " ", "C.", " ", "Clarke">>)

(***************************************************************************)
(* RecommendationsHandler  (internal/handlers, src/unnamed/part_000)       *)
(***************************************************************************)
\* the values of the user1 / user2 query parameters ("" when missing)
ParamValues == {"", "abc", "1", "2", "7"}

\* the conversion that takes every string for a number
AtoiLenient(str) ==
  CASE str = "1" -> [n |-> 1, err |-> FALSE]
    [] str = "2" -> [n |-> 2, err |-> FALSE]
    [] str = "7" -> [n |-> 7, err |-> FALSE]
    [] OTHER -> [n |-> 0, err |-> FALSE]

\* strconv.Atoi
Atoi(str) ==
  CASE str = "1" -> [n |-> 1, err |-> FALSE]
    [] str = "2" -> [n |-> 2, err |-> FALSE]
    [] str = "7" -> [n |-> 7, err |-> FALSE]
    [] OTHER -> [n |-> 0, err |-> TRUE]

UserIDStr(r) == IF r = 1 THEN user1IDStr ELSE user2IDStr

\* what the catalog can answer to the searches and works requests of a request
HandlerSearchResponses ==
  {ErrResponse, [err |-> FALSE, docs |-> <<>>], [err |-> FALSE, docs |-> <<DocWells>>],
   [err |-> FALSE, docs |-> <<DocWeir, DocWellsJr>>]}

HandlerWorksResponses ==
  {ErrWorks,
   [err |-> FALSE, entries |-> <<[Subjects |-> << <<"f", "a", " ">> >>],
                                 [Subjects |-> << <<"F", "a">>, <<" ", "H", "i">> >>]>>],
   [err |-> FALSE, entries |-> <<[Subjects |-> << <<"s", "f">> >>], [Subjects |-> <<>>]>>]}

\* subjectResult{Aggregate, Err}
ErrResult == [Aggregate |-> Nil, err |-> TRUE]

\* the answer that is written without the return that follows it
HandlerWritesOn(status) ==
  /\ written' = Append(written, status)
  /\ hPc' = hPc
  /\ ctxDone' = ctxDone

\* the handler returns: its deferred cancel() ends the request context
HandlerReturns(status) ==
  /\ written' = Append(written, status)
  /\ hPc' = "done"
  /\ ctxDone' = TRUE

\* lines 18-125: the parameters are read and validated, the database is
\* opened and the two reader goroutines are started
HStart ==
  /\ hPc = "start"
  /\ IF user1IDStr = "" \/ user2IDStr = ""
     THEN /\ HandlerReturns(StatusBadRequest)
          /\ UNCHANGED gPc
     ELSE IF Atoi(user1IDStr).err \/ Atoi(user2IDStr).err
          THEN /\ HandlerReturns(StatusBadRequest)
               /\ UNCHANGED gPc
          ELSE /\ hPc' = "collect"
               /\ gPc' = [r \in Readers |-> "start"]
               /\ UNCHANGED <<written, ctxDone>>
  /\ UNCHANGED <<resolveVars, aggVars, db, user1IDStr, user2IDStr, hI, resultsCh, user1Subjects,
                 user2Subjects, commonSubject, recommendedBooks, booksVars>>

\* the send on a channel without buffer: it needs the handler at its receive
SendUnbuffered(res) ==
  /\ hPc = "collect"
  /\ Len(resultsCh) = 0
  /\ resultsCh' = Append(resultsCh, res)

\* resultsCh <- res (the channel holds two values, and two are ever sent)
Send(res) ==
  /\ Len(resultsCh) < ResultsChCap
  /\ resultsCh' = Append(resultsCh, res)

\* reader goroutine, lines 58-76: GetUserFavoriteAuthors, then the call of
\* ResolveAuthorKeys (whose searches the catalog answers in some way).  Once
\* the handler has returned its deferred db.Close() (line 47) has run and
\* the query fails.
GGetAuthors(r) ==
  /\ gPc[r] = "start"
  /\ LET res == IF hPc = "done"
                THEN [authors |-> <<>>, err |-> TRUE]
                ELSE GetUserFavoriteAuthors(db, Atoi(UserIDStr(r)).n)
     IN
       IF res.err \/ Len(res.authors) = 0
       THEN /\ Send(ErrResult)
            /\ gPc' = [gPc EXCEPT ![r] = "done"]
            /\ UNCHANGED resolveVars
       ELSE /\ \E resps \in [1..Len(res.authors) -> HandlerSearchResponses] :
                 RkCall(r, res.authors, resps)
            /\ gPc' = [gPc EXCEPT ![r] = "resolve"]
            /\ UNCHANGED resultsCh
  /\ UNCHANGED <<ctxDone, aggVars, db, user1IDStr, user2IDStr, hPc, hI, user1Subjects,
                 user2Subjects, commonSubject, recommendedBooks, written, booksVars>>

\* reader goroutine, lines 72-87: ResolveAuthorKeys has returned; on an
\* error the goroutine reports it, otherwise it calls GetSubjectAuthorCounts
GResolved(r) ==
  /\ gPc[r] = "resolve"
  /\ rkPc[r] = "ret"
  /\ IF rkRet[r].err
     THEN /\ Send(ErrResult)
          /\ gPc' = [gPc EXCEPT ![r] = "done"]
          /\ UNCHANGED aggVars
     ELSE /\ \E resps \in [1..Len(rkRet[r].authors) -> HandlerWorksResponses] :
               SaCall(r, rkRet[r].authors, resps)
          /\ gPc' = [gPc EXCEPT ![r] = "aggregate"]
          /\ UNCHANGED resultsCh
  /\ UNCHANGED <<ctxDone, resolveVars, db, user1IDStr, user2IDStr, hPc, hI, user1Subjects,
                 user2Subjects, commonSubject, recommendedBooks, written, booksVars>>

\* reader goroutine, lines 83-89: GetSubjectAuthorCounts has returned; the
\* goroutine sends the error or the aggregate
GAggregated(r) ==
  /\ gPc[r] = "aggregate"
  /\ saPc[r] = "ret"
  /\ IF saRet[r].err
     THEN Send(ErrResult)
     ELSE Send([Aggregate |-> saRet[r].Aggregate, err |-> FALSE])
  /\ gPc' = [gPc EXCEPT ![r] = "done"]
  /\ UNCHANGED <<ctxDone, resolveVars, aggVars, db, user1IDStr, user2IDStr, hPc, hI, user1Subjects,
                 user2Subjects, commonSubject, recommendedBooks, written, booksVars>>

\* the collect loop that stores every aggregate in user1Subjects
HReceiveFirstSlot ==
  /\ hPc = "collect"
  /\ Len(resultsCh) > 0
  /\ resultsCh' = Tail(resultsCh)
  /\ LET res == Head(resultsCh) IN
       IF res.err
       THEN /\ HandlerReturns(StatusInternalServerError)
            /\ UNCHANGED <<hI, user1Subjects, user2Subjects>>
       ELSE /\ user1Subjects' = res.Aggregate
            /\ UNCHANGED user2Subjects
            /\ hI' = hI + 1
            /\ hPc' = IF hI + 1 < 2 THEN "collect" ELSE "select"
            /\ UNCHANGED <<written, ctxDone>>
  /\ UNCHANGED <<resolveVars, aggVars, db, user1IDStr, user2IDStr, gPc, commonSubject,
                 recommendedBooks, booksVars>>

\* the collect loop, case res := <-resultsCh (lines 130-141)
HReceive ==
  /\ hPc = "collect"
  /\ Len(resultsCh) > 0
  /\ resultsCh' = Tail(resultsCh)
  /\ LET res == Head(resultsCh) IN
       IF res.err
       THEN /\ HandlerReturns(StatusInternalServerError)
            /\ UNCHANGED <<hI, user1Subjects, user2Subjects>>
       ELSE /\ IF user1Subjects = Nil
               THEN user1Subjects' = res.Aggregate /\ UNCHANGED user2Subjects
               ELSE user2Subjects' = res.Aggregate /\ UNCHANGED user1Subjects
            /\ hI' = hI + 1
            /\ hPc' = IF hI + 1 < 2 THEN "collect" ELSE "select"
            /\ UNCHANGED <<written, ctxDone>>
  /\ UNCHANGED <<resolveVars, aggVars, db, user1IDStr, user2IDStr, gPc, commonSubject,
                 recommendedBooks, booksVars>>

\* the collect loop, case <-ctx.Done() (lines 142-144)
HTimeout ==
  /\ hPc = "collect"
  /\ ctxDone
  /\ HandlerReturns(StatusGatewayTimeout)
  /\ UNCHANGED <<resolveVars, aggVars, db, user1IDStr, user2IDStr, hI, gPc, resultsCh,
                 user1Subjects, user2Subjects, commonSubject, recommendedBooks, booksVars>>

\* the selection step that goes on to the books whatever FindMostCommonSubject returns
HSelectIgnoresError ==
  /\ hPc = "select"
  /\ \E ret \in FindMostCommonSubject(MapOf(user1Subjects), MapOf(user2Subjects)) :
       /\ commonSubject' = ret.subject
       /\ hPc' = "books"
       /\ UNCHANGED <<written, ctxDone>>
  /\ UNCHANGED <<resolveVars, aggVars, db, user1IDStr, user2IDStr, hI, gPc, resultsCh,
                 user1Subjects, user2Subjects, recommendedBooks, booksVars>>

\* lines 148-154: FindMostCommonSubject; its error is answered 404
HSelect ==
  /\ hPc = "select"
  /\ \E ret \in FindMostCommonSubject(MapOf(user1Subjects), MapOf(user2Subjects)) :
       IF ret.err
       THEN /\ HandlerReturns(StatusNotFound)
            /\ UNCHANGED commonSubject
       ELSE /\ commonSubject' = ret.subject
            /\ hPc' = "books"
            /\ UNCHANGED <<written, ctxDone>>
  /\ UNCHANGED <<resolveVars, aggVars, db, user1IDStr, user2IDStr, hI, gPc, resultsCh,
                 user1Subjects, user2Subjects, recommendedBooks, booksVars>>

\* lines 148-154 with the FindMostCommonSubject of book_service.go lines 383-404
HSelectRunningMax ==
  /\ hPc = "select"
  /\ \E ret \in FindMostCommonSubjectRunningMax(MapOf(user1Subjects), MapOf(user2Subjects)) :
       IF ret.err
       THEN /\ HandlerReturns(StatusNotFound)
            /\ UNCHANGED commonSubject
       ELSE /\ commonSubject' = ret.subject
            /\ hPc' = "books"
            /\ UNCHANGED <<written, ctxDone>>
  /\ UNCHANGED <<resolveVars, aggVars, db, user1IDStr, user2IDStr, hI, gPc, resultsCh,
                 user1Subjects, user2Subjects, recommendedBooks, booksVars>>

\* what the catalog can answer to the subject request of a request
HandlerBooksResponses ==
  {ErrSubject,
   [err |-> FALSE, works |-> <<BookOld>>, descs |-> DescResponsesCore],
   [err |-> FALSE, works |-> <<BookRecent, BookReissued>>, descs |-> DescResponsesCore]}

\* line 157: the call of GetRecommendedBooks(ctx, commonSubject)
HCallBooks ==
  /\ hPc = "books"
  /\ \E resp \in HandlerBooksResponses : BkCall(resp)
  /\ hPc' = "booksWait"
  /\ UNCHANGED <<ctxDone, resolveVars, aggVars, db, user1IDStr, user2IDStr, hI, gPc, resultsCh,
                 user1Subjects, user2Subjects, commonSubject, recommendedBooks, written>>

\* the response that encodes whatever GetRecommendedBooks returned
HRespondAlwaysOK ==
  /\ hPc = "booksWait"
  /\ bkPc = "ret"
  /\ recommendedBooks' = bkRet.books
  /\ HandlerReturns(StatusOK)
  /\ UNCHANGED <<resolveVars, aggVars, db, user1IDStr, user2IDStr, hI, gPc, resultsCh,
                 user1Subjects, user2Subjects, commonSubject, booksVars>>

\* lines 158-171: an error is answered 500, the books are encoded (200)
HRespond ==
  /\ hPc = "booksWait"
  /\ bkPc = "ret"
  /\ IF bkRet.err
     THEN /\ HandlerReturns(StatusInternalServerError)
          /\ UNCHANGED recommendedBooks
     ELSE /\ recommendedBooks' = bkRet.books
          /\ HandlerReturns(StatusOK)
  /\ UNCHANGED <<resolveVars, aggVars, db, user1IDStr, user2IDStr, hI, gPc, resultsCh,
                 user1Subjects, user2Subjects, commonSubject, booksVars>>

\* the deadline that never elapses
DeadlineNever ==
  /\ FALSE
  /\ UNCHANGED vars

\* the 30 s deadline of context.WithTimeout elapses while the handler runs
Deadline ==
  /\ hPc \notin {"off", "done"}
  /\ ~ctxDone
  /\ ctxDone' = TRUE
  /\ UNCHANGED <<resolveVars, aggVars, handlerVars>>

HandlerIdle ==
  /\ user1IDStr = ""
  /\ user2IDStr = ""
  /\ db = Users
  /\ hPc = "off"
  /\ hI = 0
  /\ gPc = [r \in Readers |-> "off"]
  /\ resultsCh = <<>>
  /\ user1Subjects = Nil
  /\ user2Subjects = Nil
  /\ commonSubject = <<>>
  /\ recommendedBooks = <<>>
  /\ written = <<>>
  /\ BooksIdle

(***************************************************************************)
(* SpecResolve: one call of ResolveAuthorKeys (by reader 1) on any list of *)
(* at most MaxNames names, each search answered by any response.           *)
(***************************************************************************)
NameLists == {SubSeq(StoredNames, 1, k) : k \in 0..MaxNames}

InitResolve ==
  /\ ctxDone = FALSE
  /\ \E names \in NameLists :
       \E resps \in [1..Len(names) -> SearchResponses] :
         /\ rkAuthors = [r \in Readers |-> IF r = 1 THEN names ELSE <<>>]
         /\ rkResp = [r \in Readers |-> IF r = 1 THEN resps ELSE <<>>]
         /\ rkPc = [r \in Readers |-> IF r = 1 THEN "loop" ELSE "idle"]
         /\ rkWorker = [r \in Readers |->
                          IF r = 1 THEN [i \in 1..Len(names) |-> NoWorker] ELSE <<>>]
  /\ rkIdx = [r \in Readers |-> 1]
  /\ rkSem = [r \in Readers |-> 0]
  /\ rkWg = [r \in Readers |-> 0]
  /\ rkMu = [r \in Readers |-> 0]
  /\ rkErrCh = [r \in Readers |-> <<>>]
  /\ authorKeys = [r \in Readers |-> <<>>]
  /\ rkRet = [r \in Readers |-> NoReturn]
  /\ AggIdle
  /\ HandlerIdle

NextResolve ==
  \E r \in Readers :
    \/ RkDispatch(r)
    \/ \E i \in RkWorkers(r) : RkFetch(r, i)
    \/ \E i \in RkWorkers(r) : RkLock(r, i)
    \/ \E i \in RkWorkers(r) : RkAppend(r, i)
    \/ \E i \in RkWorkers(r) : RkExit(r, i)
    \/ RkReturn(r)

SpecResolve == InitResolve /\ [][NextResolve]_vars

(***************************************************************************)
(* SpecAgg: one call of GetSubjectAuthorCounts (by reader 1) on any list   *)
(* of at most MaxAuthors authors, each works request answered by any       *)
(* response; the answers are fixed when the call starts.                   *)
(***************************************************************************)
InitAgg ==
  /\ ctxDone = FALSE
  /\ \E authors \in SeqsUpTo(AuthorPool, MaxAuthors) :
       \E resps \in [1..Len(authors) -> WorksResponses] :
         /\ saAuthors = [r \in Readers |-> IF r = 1 THEN authors ELSE <<>>]
         /\ saResp = [r \in Readers |-> IF r = 1 THEN resps ELSE <<>>]
         /\ saPc = [r \in Readers |-> IF r = 1 THEN "loop" ELSE "idle"]
         /\ saWorker = [r \in Readers |->
                          IF r = 1 THEN [i \in 1..Len(authors) |-> NoSaWorker] ELSE <<>>]
  /\ saIdx = [r \in Readers |-> 1]
  /\ saSem = [r \in Readers |-> 0]
  /\ saWg = [r \in Readers |-> 0]
  /\ saMu = [r \in Readers |-> 0]
  /\ saErrCh = [r \in Readers |-> <<>>]
  /\ subjectAuthorCount = [r \in Readers |-> <<>>]
  /\ perAuthorSubjects = [r \in Readers |-> <<>>]
  /\ saRet = [r \in Readers |-> NoSaReturn]
  /\ ResolveIdle
  /\ HandlerIdle

NextAgg ==
  \E r \in Readers :
    \/ SaDispatch(r)
    \/ \E i \in SaWorkers(r) : SaFetch(r, i)
    \/ \E i \in SaWorkers(r) : SaLock(r, i)
    \/ \E i \in SaWorkers(r) : SaMerge(r, i)
    \/ \E i \in SaWorkers(r) : SaExit(r, i)
    \/ SaReturn(r)

SpecAgg == InitAgg /\ [][NextAgg]_vars

(***************************************************************************)
(* SpecSelect: the handler's selection step on any two weight maps over    *)
(* three subjects, with weights from 1 to MaxWeight (an aggregate holds no *)
(* key of weight 0).                                                       *)
(***************************************************************************)
SelectSubjects == {<<"f", "a">>, <<"h", "i">>, <<"s", "f">>}

WeightMaps == UNION {[D -> 1..MaxWeight] : D \in SUBSET SelectSubjects}

InitSelect ==
  /\ ctxDone = FALSE
  /\ ResolveIdle
  /\ AggIdle
  /\ user1IDStr = "1"
  /\ user2IDStr = "2"
  /\ db = Users
  /\ hPc = "select"
  /\ hI = 2
  /\ gPc = [r \in Readers |-> "done"]
  /\ resultsCh = <<>>
  /\ \E m \in WeightMaps : user1Subjects = Some(m)
  /\ \E m \in WeightMaps : user2Subjects = Some(m)
  /\ commonSubject = <<>>
  /\ recommendedBooks = <<>>
  /\ written = <<>>
  /\ BooksIdle

NextSelect == HSelect

SpecSelect == InitSelect /\ [][NextSelect]_vars

(***************************************************************************)
(* SpecSelectEdge: the selection step, by either definition of             *)
(* FindMostCommonSubject, on any two maps over the subjects "" (what a     *)
(* blank subject normalizes to) and "fa", with weights from 0 to MaxWeight.*)
(***************************************************************************)
EdgeSubjects == {<<>>, <<"f", "a">>}

EdgeMaps == UNION {[D -> 0..MaxWeight] : D \in SUBSET EdgeSubjects}

InitSelectEdge ==
  /\ ctxDone = FALSE
  /\ ResolveIdle
  /\ AggIdle
  /\ user1IDStr = "1"
  /\ user2IDStr = "2"
  /\ db = Users
  /\ hPc = "select"
  /\ hI = 2
  /\ gPc = [r \in Readers |-> "done"]
  /\ resultsCh = <<>>
  /\ \E m \in EdgeMaps : user1Subjects = Some(m)
  /\ \E m \in EdgeMaps : user2Subjects = Some(m)
  /\ commonSubject = <<>>
  /\ recommendedBooks = <<>>
  /\ written = <<>>
  /\ BooksIdle

NextSelectEdge == HSelect \/ HSelectRunningMax

SpecSelectEdge == InitSelectEdge /\ [][NextSelectEdge]_vars

(***************************************************************************)
(* SpecBooks: the request from the call of GetRecommendedBooks to the      *)
(* handler's return, on any subject response of at most MaxWorks works and *)
(* any answers to the work-detail requests; the deadline can elapse at any *)
(* moment.                                                                 *)
(***************************************************************************)
InitBooks ==
  /\ ctxDone = FALSE
  /\ ResolveIdle
  /\ AggIdle
  /\ user1IDStr = "1"
  /\ user2IDStr = "2"
  /\ db = Users
  /\ hPc = "booksWait"
  /\ hI = 2
  /\ gPc = [r \in Readers |-> "done"]
  /\ resultsCh = <<>>
  /\ user1Subjects = Some(<<"s", "f">> :> 1)
  /\ user2Subjects = Some(<<"s", "f">> :> 1)
  /\ commonSubject = <<"s", "f">>
  /\ recommendedBooks = <<>>
  /\ written = <<>>
  /\ bkPc = "subject"
  /\ bkRet = NoBooks
  /\ bkResp \in SubjectResponses
  /\ bkWorks = <<>>
  /\ bkIdx = 1
  /\ bkJobs = <<>>
  /\ bkJobsClosed = FALSE
  /\ bkInflight = {}
  /\ bkActive = 0
  /\ bkResults = <<>>
  /\ bkErrCh = {}

NextBooks ==
  \/ BkFetchSubject
  \/ BkEnqueue
  \/ BkCloseJobs
  \/ BkTake
  \/ \E f \in bkInflight : BkDescribe(f)
  \/ \E f \in bkInflight : BkSend(f)
  \/ BkWorkerExit
  \/ BkReturn
  \/ HRespond

SpecBooks == InitBooks /\ [][NextBooks]_vars

(***************************************************************************)
(* SpecDescribe: GetRecommendedBooks on a few subject responses, with      *)
(* every shape of answer to the work-detail requests.                      *)
(***************************************************************************)
DescribeWorks == {<<BookRecent>>, <<BookRecent, BookReissued>>, <<BookOld, BookReissued>>}

InitDescribe ==
  /\ ctxDone = FALSE
  /\ ResolveIdle
  /\ AggIdle
  /\ user1IDStr = "1"
  /\ user2IDStr = "2"
  /\ db = Users
  /\ hPc = "booksWait"
  /\ hI = 2
  /\ gPc = [r \in Readers |-> "done"]
  /\ resultsCh = <<>>
  /\ user1Subjects = Some(<<"s", "f">> :> 1)
  /\ user2Subjects = Some(<<"s", "f">> :> 1)
  /\ commonSubject = <<"s", "f">>
  /\ recommendedBooks = <<>>
  /\ written = <<>>
  /\ bkPc = "subject"
  /\ bkRet = NoBooks
  /\ \E w \in DescribeWorks : bkResp = [err |-> FALSE, works |-> w, descs |-> DescResponses]
  /\ bkWorks = <<>>
  /\ bkIdx = 1
  /\ bkJobs = <<>>
  /\ bkJobsClosed = FALSE
  /\ bkInflight = {}
  /\ bkActive = 0
  /\ bkResults = <<>>
  /\ bkErrCh = {}

SpecDescribe == InitDescribe /\ [][NextBooks]_vars

(***************************************************************************)
(* Spec: one request, from its arrival to the handler's return and the end *)
(* of its goroutines.                                                      *)
(***************************************************************************)
Init ==
  /\ ctxDone = FALSE
  /\ ResolveIdle
  /\ AggIdle
  /\ user1IDStr \in ParamValues
  /\ user2IDStr \in ParamValues
  /\ db = Users
  /\ hPc = "start"
  /\ hI = 0
  /\ gPc = [r \in Readers |-> "off"]
  /\ resultsCh = <<>>
  /\ user1Subjects = Nil
  /\ user2Subjects = Nil
  /\ commonSubject = <<>>
  /\ recommendedBooks = <<>>
  /\ written = <<>>
  /\ BooksIdle

Next ==
  \/ HStart
  \/ \E r \in Readers : GGetAuthors(r)
  \/ \E r \in Readers : GResolved(r)
  \/ \E r \in Readers : GAggregated(r)
  \/ \E r \in Readers : RkDispatch(r)
  \/ \E r \in Readers : \E i \in RkWorkers(r) : RkFetch(r, i)
  \/ \E r \in Readers : \E i \in RkWorkers(r) : RkLock(r, i)
  \/ \E r \in Readers : \E i \in RkWorkers(r) : RkAppend(r, i)
  \/ \E r \in Readers : \E i \in RkWorkers(r) : RkExit(r, i)
  \/ \E r \in Readers : RkReturn(r)
  \/ \E r \in Readers : SaDispatch(r)
  \/ \E r \in Readers : \E i \in SaWorkers(r) : SaFetch(r, i)
  \/ \E r \in Readers : \E i \in SaWorkers(r) : SaLock(r, i)
  \/ \E r \in Readers : \E i \in SaWorkers(r) : SaMerge(r, i)
  \/ \E r \in Readers : \E i \in SaWorkers(r) : SaExit(r, i)
  \/ \E r \in Readers : SaReturn(r)
  \/ HReceive
  \/ HTimeout
  \/ HSelect
  \/ HCallBooks
  \/ BkFetchSubject
  \/ BkEnqueue
  \/ BkCloseJobs
  \/ BkTake
  \/ \E f \in bkInflight : BkDescribe(f)
  \/ \E f \in bkInflight : BkSend(f)
  \/ \E f \in bkInflight : BkAbandon(f)
  \/ BkWorkerExit
  \/ BkReturn
  \/ HRespond
  \/ Deadline

Spec == Init /\ [][Next]_vars

(***************************************************************************)
(* SpecLive: the same request under the scheduling the runtime gives: every *)
(* goroutine that can take a step takes one, the deadline timer fires, and *)
(* a catalog request returns once its context is done (nothing is assumed  *)
(* of a request whose context is live: it may never be answered).          *)
(***************************************************************************)
\* a catalog request returns
FetchStep ==
  \/ \E r \in Readers : \E i \in RkWorkers(r) : RkFetch(r, i)
  \/ \E r \in Readers : \E i \in SaWorkers(r) : SaFetch(r, i)
  \/ BkFetchSubject
  \/ \E f \in bkInflight : BkDescribe(f)

\* any other step of the request
ProgramStep ==
  \/ HStart
  \/ \E r \in Readers : GGetAuthors(r)
  \/ \E r \in Readers : GResolved(r)
  \/ \E r \in Readers : GAggregated(r)
  \/ \E r \in Readers : RkDispatch(r)
  \/ \E r \in Readers : \E i \in RkWorkers(r) : RkLock(r, i)
  \/ \E r \in Readers : \E i \in RkWorkers(r) : RkAppend(r, i)
  \/ \E r \in Readers : \E i \in RkWorkers(r) : RkExit(r, i)
  \/ \E r \in Readers : RkReturn(r)
  \/ \E r \in Readers : SaDispatch(r)
  \/ \E r \in Readers : \E i \in SaWorkers(r) : SaLock(r, i)
  \/ \E r \in Readers : \E i \in SaWorkers(r) : SaMerge(r, i)
  \/ \E r \in Readers : \E i \in SaWorkers(r) : SaExit(r, i)
  \/ \E r \in Readers : SaReturn(r)
  \/ HReceive
  \/ HTimeout
  \/ HSelect
  \/ HCallBooks
  \/ BkEnqueue
  \/ BkCloseJobs
  \/ BkTake
  \/ \E f \in bkInflight : BkSend(f)
  \/ \E f \in bkInflight : BkAbandon(f)
  \/ BkWorkerExit
  \/ BkReturn
  \/ HRespond
  \/ Deadline

SpecLive ==
  /\ Init
  /\ [][Next]_vars
  /\ WF_vars(ProgramStep)
  /\ WF_vars(ctxDone /\ FetchStep)

(***************************************************************************)
(* Properties of ResolveAuthorKeys (checked under SpecResolve).            *)
(***************************************************************************)
\* how often x occurs in the sequence seq
Occurrences(seq, x) == Cardinality({j \in 1..Len(seq) : seq[j] = x})

\* the workers of reader r whose lookup failed / resolved
RkFailed(r) == {i \in RkWorkers(r) : rkWorker[r][i].failed}
RkResolved(r) == {i \in RkWorkers(r) : rkWorker[r][i].pc \in {"exit", "done"} /\ ~rkWorker[r][i].failed}

\* C1: when the lookup of one name fails while other names resolve, the
\* call returns without error, and returns exactly the authors selected for
\* the names that resolved.
C1_FailedNameIsDropped ==
  (rkPc[1] = "ret" /\ RkFailed(1) # {} /\ RkResolved(1) # {})
    => /\ rkRet[1].err = FALSE
       /\ Len(rkRet[1].authors) = Cardinality(RkResolved(1))
       /\ \A i \in RkResolved(1) :
            Occurrences(rkRet[1].authors, rkWorker[1][i].selectedAuthor)
              = Cardinality({k \in RkResolved(1) :
                              rkWorker[1][k].selectedAuthor = rkWorker[1][i].selectedAuthor})

\* candidate j of docs has the greatest workCount and is the first to have it
FirstGreatest(docs, j) ==
  /\ \A k \in 1..Len(docs) : docs[k].WorkCount <= docs[j].WorkCount
  /\ \A k \in 1..(j - 1) : docs[k].WorkCount < docs[j].WorkCount

\* C2: for every name whose search returned a non-empty candidate list,
\* the author selected (and appended to authorKeys) is one of the candidates,
\* the one with the greatest workCount, and among several with the greatest
\* workCount the first in response order.
C2_SelectsFirstGreatestWorkCount ==
  \A i \in RkWorkers(1) :
    (rkWorker[1][i].pc \in {"lock", "append", "exit", "done"} /\ ~rkWorker[1][i].failed)
      => LET docs == rkResp[1][i].docs
             a == rkWorker[1][i].selectedAuthor
         IN /\ Len(docs) > 0
            /\ \E j \in 1..Len(docs) :
                 /\ FirstGreatest(docs, j)
                 /\ a.Name = docs[j].Name
                 /\ a.WorkCount = docs[j].WorkCount
                 /\ a.Key = TrimPrefix(docs[j].Key, "/authors/")
            /\ (rkWorker[1][i].pc \in {"exit", "done"}
                  => \E k \in 1..Len(authorKeys[1]) : authorKeys[1][k] = a)

\* the call has returned an author chosen among two candidates of equal,
\* greatest workCount: the first one
C2_Witness ==
  /\ rkPc[1] = "ret"
  /\ ~rkRet[1].err
  /\ \E i \in RkWorkers(1) :
       /\ rkResp[1][i].docs = <<DocWellsJr, DocWells>>
       /\ rkWorker[1][i].selectedAuthor.Key = <<"OL20A">>
       /\ \E k \in 1..Len(rkRet[1].authors) :
            rkRet[1].authors[k] = rkWorker[1][i].selectedAuthor

\* C3: the returned list has at most N entries for N names, and no two
\* entries have the same catalog key.
C3_KeysUnique ==
  rkPc[1] = "ret"
    => /\ Len(rkRet[1].authors) <= Len(rkAuthors[1])
       /\ \A j, k \in 1..Len(rkRet[1].authors) :
            j # k => rkRet[1].authors[j].Key # rkRet[1].authors[k].Key

(***************************************************************************)
(* Properties of GetSubjectAuthorCounts (checked under SpecAgg).           *)
(***************************************************************************)
\* the workers of reader r whose fetch failed / whose subjects are merged
SaFailed(r) == {i \in SaWorkers(r) : saWorker[r][i].failed}
SaMerged(r) == {i \in SaWorkers(r) : saWorker[r][i].pc \in {"exit", "done"} /\ ~saWorker[r][i].failed}

\* x is the string c with letters in any case and spaces around it
IsVariantOf(x, c) ==
  \E lead \in 0..Len(x) :
    /\ lead + Len(c) <= Len(x)
    /\ \A k \in 1..Len(x) :
         IF k <= lead \/ k > lead + Len(c)
         THEN x[k] = " "
         ELSE LowerChar(x[k]) = c[k - lead]

\* c has no upper-case letter and no space at either end
IsCanonical(c) ==
  /\ \A k \in 1..Len(c) : c[k] \notin {"F", "H", "S"}
  /\ Len(c) > 0 => (c[1] # " " /\ c[Len(c)] # " ")

\* the answer for author i of reader r has a work tagged (in some spelling) c
Carries(r, i, c) ==
  /\ ~saResp[r][i].err
  /\ \E w \in 1..Len(saResp[r][i].entries) :
       \E k \in 1..Len(saResp[r][i].entries[w].Subjects) :
         IsVariantOf(saResp[r][i].entries[w].Subjects[k], c)

\* the number of works of author i that carry c
WorksCarrying(r, i, c) ==
  Cardinality({w \in 1..Len(saResp[r][i].entries) :
                \E k \in 1..Len(saResp[r][i].entries[w].Subjects) :
                  IsVariantOf(saResp[r][i].entries[w].Subjects[k], c)})

\* C4: at every moment of a call, the weight of a subject s is at most the
\* number of authors in the list, each author whose subjects are merged has
\* added at most 1 to it however many of that author's works carry s, and a
\* subject that no author's works carry has no weight.
C4_OneContributionPerAuthor ==
  \A s \in DOMAIN subjectAuthorCount[1] :
    /\ subjectAuthorCount[1][s] >= 1
    /\ subjectAuthorCount[1][s] <= Cardinality({i \in SaMerged(1) : Carries(1, i, s)})
    /\ subjectAuthorCount[1][s] <= Len(saAuthors[1])
    /\ \E i \in SaWorkers(1) : Carries(1, i, s)

\* the call has returned a weight of 1 for a subject that two works of the
\* one author carry
C4_Witness ==
  /\ saPc[1] = "ret"
  /\ ~saRet[1].err
  /\ Len(saAuthors[1]) = 1
  /\ WorksCarrying(1, 1, <<"f", "a">>) = 2
  /\ Val(saRet[1].Aggregate)[<<"f", "a">>] = 1

\* C5: the weights are keyed by the lower-cased, trimmed subject: every key
\* is canonical, and a raw subject of a merged author, in whatever case and
\* with whatever spaces around it, is counted under its canonical key, once
\* for that author.
C5_KeysAreNormalized ==
  /\ \A c \in DOMAIN subjectAuthorCount[1] : IsCanonical(c)
  /\ \A i \in SaMerged(1) :
       \A w \in 1..Len(saResp[1][i].entries) :
         \A k \in 1..Len(saResp[1][i].entries[w].Subjects) :
           \E c \in DOMAIN subjectAuthorCount[1] :
             /\ IsVariantOf(saResp[1][i].entries[w].Subjects[k], c)
             /\ subjectAuthorCount[1][c] = Cardinality({j \in SaMerged(1) : Carries(1, j, c)})

\* the call has returned one key, with weight 1, for an author whose works
\* spell the subject "Fa" and "fa "
C5_Witness ==
  /\ saPc[1] = "ret"
  /\ ~saRet[1].err
  /\ Len(saAuthors[1]) = 1
  /\ saResp[1][1].entries = <<[Subjects |-> << <<"F", "a">>, <<"f", "a", " ">> >>]>>
  /\ DOMAIN Val(saRet[1].Aggregate) = {<<"f", "a">>}
  /\ Val(saRet[1].Aggregate)[<<"f", "a">>] = 1

\* the aggregate of the authors whose fetch succeeded
AggregateOfSucceeded(r) ==
  LET carried == {c \in {NormalizeSubject(x) : x \in RawSubjects} :
                    \E i \in SaWorkers(r) : Carries(r, i, c)}
  IN [c \in carried |-> Cardinality({i \in SaWorkers(r) : Carries(r, i, c)})]

\* C6: when the works fetch of one author fails while others succeed, the
\* call returns without error the aggregate of the authors whose fetch
\* succeeded.
C6_FailedAuthorIsDropped ==
  (saPc[1] = "ret" /\ SaFailed(1) # {} /\ SaMerged(1) # {})
    => /\ saRet[1].err = FALSE
       /\ saRet[1].Aggregate = Some(AggregateOfSucceeded(1))

\* C7: what the call returns is fixed by the authors and the catalog's
\* answers, whatever the order in which the workers ran and finished: an
\* error exactly when some fetch failed, and otherwise the aggregate in which
\* each subject weighs the number of authors whose works carry it.
C7_AggregateIndependentOfOrder ==
  saPc[1] = "ret"
    => /\ saRet[1].err = (\E i \in SaWorkers(1) : saResp[1][i].err)
       /\ ~saRet[1].err => saRet[1].Aggregate = Some(AggregateOfSucceeded(1))

\* the call has returned after its second worker merged before its first
\* (the empty subject, which only the second carries, heads the per-author
\* list the two same-named authors share), both carrying a common subject
C7_Witness ==
  /\ saPc[1] = "ret"
  /\ ~saRet[1].err
  /\ Len(saAuthors[1]) = 2
  /\ saAuthors[1][1].Name = saAuthors[1][2].Name
  /\ Carries(1, 1, <<"h", "i">>) /\ Carries(1, 2, <<"h", "i">>)
  /\ ~Carries(1, 1, <<>>) /\ Carries(1, 2, <<>>)
  /\ Val(saRet[1].PerAuthor)[saAuthors[1][1].Name][1] = <<>>
  /\ Val(saRet[1].Aggregate)[<<"h", "i">>] = 2

(***************************************************************************)
(* Properties of FindMostCommonSubject and of the handler's selection step. *)
(***************************************************************************)
\* the combined weight of a subject: its weight for the one reader plus its
\* weight for the other
Combined(s) == Count(MapOf(user1Subjects), s) + Count(MapOf(user2Subjects), s)

SharedKeys == DOMAIN MapOf(user1Subjects) \cap DOMAIN MapOf(user2Subjects)

\* C8: when the two aggregates share a key, the subject FindMostCommonSubject
\* returns is a key of both aggregates, and no shared key has a greater
\* combined weight.
C8_SelectsSharedKeyOfGreatestWeight ==
  hPc = "books" =>
    /\ commonSubject \in SharedKeys
    /\ \A t \in SharedKeys : Combined(t) <= Combined(commonSubject)

\* {fantasy: 3, science_fiction: 1} and {science_fiction: 2, history: 4}
\* select science_fiction
C8_Witness ==
  /\ hPc = "books"
  /\ user1Subjects = Some((<<"f", "a">> :> 3) @@ (<<"s", "f">> :> 1))
  /\ user2Subjects = Some((<<"s", "f">> :> 2) @@ (<<"h", "i">> :> 4))
  /\ commonSubject = <<"s", "f">>

\* C9: among the shared keys of greatest combined weight, the selected
\* subject is the lexicographically smallest.
C9_TieIsBrokenLexicographically ==
  hPc = "books" =>
    \A t \in SharedKeys :
      Combined(t) = Combined(commonSubject) => ~StrLess(t, commonSubject)

\* C10: when the aggregates share no key, the request ends with 404, no
\* subject is selected, GetRecommendedBooks is never called and 200 is never
\* written.
C10_NoCommonSubjectIs404 ==
  (hPc \in {"books", "booksWait", "done"} /\ user1Subjects # Nil /\ user2Subjects # Nil
     /\ SharedKeys = {}) =>
    /\ hPc = "done"
    /\ written = <<StatusNotFound>>
    /\ commonSubject = <<>>
    /\ bkPc = "idle"

\* both readers delivered a non-empty aggregate, the two share no key, and
\* the handler has returned
C10_Witness ==
  /\ hPc = "done"
  /\ user1Subjects # Nil
  /\ user2Subjects # Nil
  /\ DOMAIN MapOf(user1Subjects) # {}
  /\ DOMAIN MapOf(user2Subjects) # {}
  /\ SharedKeys = {}
  /\ written = <<StatusNotFound>>

(***************************************************************************)
(* Properties of GetRecommendedBooks.                                      *)
(***************************************************************************)
\* the work of the subject response that a returned Work was built from
SourceOf(work) == bkWorks[work.Title]

\* every year a work carries: the four-digit years of its publish_date and
\* its first_publish_year
YearsOf(book) ==
  {book.PublishDate[k].val : k \in {k \in 1..Len(book.PublishDate) :
      /\ book.PublishDate[k].isNum
      /\ book.PublishDate[k].val >= MinYear
      /\ book.PublishDate[k].val <= MaxYear}}
  \cup {y \in {book.FirstPublishYear} : y # 0}

InWindow(y) == CurrentYear - RecencyWindow <= y /\ y <= CurrentYear

Returned == bkPc = "ret" /\ ~bkRet.err

ReturnedTitles == {bkRet.books[k].Title : k \in 1..Len(bkRet.books)}

\* C11: every work returned by GetRecommendedBooks carries a year Y with
\* currentYear-2 <= Y <= currentYear (so a work without a year, with old
\* years only or with a future year only is never returned).
C11_ReturnedWorksAreRecent ==
  Returned => \A t \in ReturnedTitles : \E y \in YearsOf(bkWorks[t]) : InWindow(y)

\* of a future, a reissued and an undated work only the reissued one is returned
C11_Witness ==
  /\ Returned
  /\ bkWorks = <<BookFuture, BookReissued, BookUndated>>
  /\ ReturnedTitles = {2}

\* the most recent year of a work that lies in the window (0 when none does)
QualifyingYear(book) ==
  LET ys == {y \in YearsOf(book) : InWindow(y)} IN
  IF ys = {} THEN 0 ELSE CHOOSE y \in ys : \A z \in ys : z <= y

\* the works of the response that passed the in-print check
Candidates == {i \in 1..Len(bkWorks) : Qualifies(bkWorks[i])}

\* C12: the returned list has at most 3 entries and is ordered by the works'
\* most recent qualifying year, descending.
C12_AtMostThreeByRecency ==
  Returned =>
    /\ Len(bkRet.books) <= TopBooks
    /\ \A k \in 1..(Len(bkRet.books) - 1) :
         QualifyingYear(SourceOf(bkRet.books[k])) >=
           QualifyingYear(SourceOf(bkRet.books[k + 1]))

\* C13: no candidate whose fetch succeeded is left out while a returned work
\* has a strictly older qualifying year, and when at most 3 works qualify
\* all of them are returned.
C13_MostRecentAreReturned ==
  Returned =>
    LET kept == {i \in Candidates : i \notin bkErrCh \/ i \in ReturnedTitles} IN
    /\ \A i \in kept \ ReturnedTitles : \A t \in ReturnedTitles :
         QualifyingYear(bkWorks[t]) >= QualifyingYear(bkWorks[i])
    /\ Cardinality(kept) <= TopBooks => kept \subseteq ReturnedTitles

\* the works whose detail response has been read and whose Work is built
Described == {f \in bkInflight : f.stage = "send"}

ResultTitles == {bkResults[k].Title : k \in 1..Len(bkResults)}

\* the text a detail response carries as a plain string or as the value of
\* an object, when it carries one
HasText(resp) ==
  resp.err = "none" /\ (resp.t = "string" \/ (resp.t = "object" /\ resp.vt = "string"))

TextOf(resp) == IF resp.t = "string" THEN resp.s ELSE resp.vs

C15_FailedDescriptionKeepsWork ==
  bkPc = "ret" /\ ~ctxDone =>
    \A i \in bkErrCh :
      \E k \in 1..Len(bkResults) :
        bkResults[k].Title = i /\ bkResults[k].Description = Nil

\* C16: when the subject response holds no work that qualifies, the call of
\* GetRecommendedBooks returns an error and the request ends with 404.
C16_NoQualifyingWorkIs404 ==
  (hPc = "done" /\ ~bkResp.err
     /\ \A i \in 1..Len(bkResp.works) : ~Qualifies(bkResp.works[i])) =>
    /\ bkRet.err
    /\ written = <<StatusNotFound>>

(***************************************************************************)
(* SpecFanOut: one call of a fan-out stage on more items than its worker   *)
(* limit: ResolveAuthorKeys on ResolveConcurrency + k names,               *)
(* GetSubjectAuthorCounts on SubjectConcurrency + k authors, or            *)
(* GetRecommendedBooks on a subject response of NumWorkers + k qualifying  *)
(* works, for k in 1..MaxOver.  The items of a call are equal, and the     *)
(* catalog answers the requests of one call alike.  Goroutines of one      *)
(* call that are at the same position with the same item and the same      *)
(* answer are interchangeable: of these the one started first takes the    *)
(* next step (the other choices give the same states up to the numbering   *)
(* of the goroutines).                                                     *)
(***************************************************************************)
Over == 1..MaxOver

\* the answers of the catalog to the n requests of one call: all fail, or
\* none fails
AnswerPatterns(n, ok, bad) == {[i \in 1..n |-> bad], [i \in 1..n |-> ok]}

FanOutAuthor == SelectAuthor(<<DocWells>>)

FanOutWorks == [err |-> FALSE, entries |-> <<[Subjects |-> << <<"s", "f">> >>]>>]

InitFanOutResolve ==
  /\ \E k \in Over :
       LET n == ResolveConcurrency + k
           names == [i \in 1..n |-> StoredNames[1]]
       IN \E resps \in AnswerPatterns(n, [err |-> FALSE, docs |-> <<DocWells>>], ErrResponse) :
            /\ rkAuthors = [r \in Readers |-> IF r = 1 THEN names ELSE <<>>]
            /\ rkResp = [r \in Readers |-> IF r = 1 THEN resps ELSE <<>>]
            /\ rkPc = [r \in Readers |-> IF r = 1 THEN "loop" ELSE "idle"]
            /\ rkWorker = [r \in Readers |->
                             IF r = 1 THEN [i \in 1..n |-> NoWorker] ELSE <<>>]
  /\ rkIdx = [r \in Readers |-> 1]
  /\ rkSem = [r \in Readers |-> 0]
  /\ rkWg = [r \in Readers |-> 0]
  /\ rkMu = [r \in Readers |-> 0]
  /\ rkErrCh = [r \in Readers |-> <<>>]
  /\ authorKeys = [r \in Readers |-> <<>>]
  /\ rkRet = [r \in Readers |-> NoReturn]
  /\ AggIdle
  /\ HandlerIdle

InitFanOutAgg ==
  /\ \E k \in Over :
       LET n == SubjectConcurrency + k
           authors == [i \in 1..n |-> FanOutAuthor]
       IN \E resps \in AnswerPatterns(n, FanOutWorks, ErrWorks) :
            /\ saAuthors = [r \in Readers |-> IF r = 1 THEN authors ELSE <<>>]
            /\ saResp = [r \in Readers |-> IF r = 1 THEN resps ELSE <<>>]
            /\ saPc = [r \in Readers |-> IF r = 1 THEN "loop" ELSE "idle"]
            /\ saWorker = [r \in Readers |->
                             IF r = 1 THEN [i \in 1..n |-> NoSaWorker] ELSE <<>>]
  /\ saIdx = [r \in Readers |-> 1]
  /\ saSem = [r \in Readers |-> 0]
  /\ saWg = [r \in Readers |-> 0]
  /\ saMu = [r \in Readers |-> 0]
  /\ saErrCh = [r \in Readers |-> <<>>]
  /\ subjectAuthorCount = [r \in Readers |-> <<>>]
  /\ perAuthorSubjects = [r \in Readers |-> <<>>]
  /\ saRet = [r \in Readers |-> NoSaReturn]
  /\ ResolveIdle
  /\ HandlerIdle

\* the work-detail requests of the call with more works than workers all
\* fail; those of a call with two works are answered in any way
InitFanOutBooks ==
  /\ ResolveIdle
  /\ AggIdle
  /\ user1IDStr = ""
  /\ user2IDStr = ""
  /\ db = Users
  /\ hPc = "off"
  /\ hI = 0
  /\ gPc = [r \in Readers |-> "off"]
  /\ resultsCh = <<>>
  /\ user1Subjects = Nil
  /\ user2Subjects = Nil
  /\ commonSubject = <<>>
  /\ recommendedBooks = <<>>
  /\ written = <<>>
  /\ bkPc = "subject"
  /\ bkRet = NoBooks
  /\ \/ \E k \in Over :
          bkResp = [err |-> FALSE, works |-> [i \in 1..(NumWorkers + k) |-> BookRecent],
                    descs |-> {DescDoError}]
     \/ bkResp = [err |-> FALSE, works |-> <<BookRecent, BookReissued>>,
                  descs |-> DescResponsesCore]
  /\ bkWorks = <<>>
  /\ bkIdx = 1
  /\ bkJobs = <<>>
  /\ bkJobsClosed = FALSE
  /\ bkInflight = {}
  /\ bkActive = 0
  /\ bkResults = <<>>
  /\ bkErrCh = {}

InitFanOut ==
  /\ ctxDone = FALSE
  /\ InitFanOutResolve \/ InitFanOutAgg \/ InitFanOutBooks

\* no goroutine started before goroutine i is in the same state with the
\* same item and the same answer
RkFirst(r, i) ==
  \A j \in 1..(i - 1) :
    rkWorker[r][j] = rkWorker[r][i] => rkResp[r][j] # rkResp[r][i] \/ rkAuthors[r][j] # rkAuthors[r][i]

SaFirst(r, i) ==
  \A j \in 1..(i - 1) :
    saWorker[r][j] = saWorker[r][i] => saResp[r][j] # saResp[r][i] \/ saAuthors[r][j] # saAuthors[r][i]

NextFanOut ==
  \/ \E r \in Readers : RkDispatch(r)
  \/ \E r \in Readers : \E i \in RkWorkers(r) : RkFirst(r, i) /\ RkFetch(r, i)
  \/ \E r \in Readers : \E i \in RkWorkers(r) : RkFirst(r, i) /\ RkLock(r, i)
  \/ \E r \in Readers : \E i \in RkWorkers(r) : RkAppend(r, i)
  \/ \E r \in Readers : \E i \in RkWorkers(r) : RkFirst(r, i) /\ RkExit(r, i)
  \/ \E r \in Readers : RkReturn(r)
  \/ \E r \in Readers : SaDispatch(r)
  \/ \E r \in Readers : \E i \in SaWorkers(r) : SaFirst(r, i) /\ SaFetch(r, i)
  \/ \E r \in Readers : \E i \in SaWorkers(r) : SaFirst(r, i) /\ SaLock(r, i)
  \/ \E r \in Readers : \E i \in SaWorkers(r) : SaMerge(r, i)
  \/ \E r \in Readers : \E i \in SaWorkers(r) : SaFirst(r, i) /\ SaExit(r, i)
  \/ \E r \in Readers : SaReturn(r)
  \/ BkFetchSubject
  \/ BkEnqueue
  \/ BkCloseJobs
  \/ BkTake
  \/ \E f \in bkInflight : BkDescribe(f)
  \/ \E f \in bkInflight : BkSend(f)
  \/ BkWorkerExit
  \/ BkReturn

SpecFanOut == InitFanOut /\ [][NextFanOut]_vars

\* the calls of ResolveAuthorKeys and GetSubjectAuthorCounts when every
\* goroutine that can take a step takes one and every catalog request returns
InitFanOutStages ==
  /\ ctxDone = FALSE
  /\ InitFanOutResolve \/ InitFanOutAgg

NextFanOutStages ==
  \/ \E r \in Readers : RkDispatch(r)
  \/ \E r \in Readers : \E i \in RkWorkers(r) : RkFirst(r, i) /\ RkFetch(r, i)
  \/ \E r \in Readers : \E i \in RkWorkers(r) : RkFirst(r, i) /\ RkLock(r, i)
  \/ \E r \in Readers : \E i \in RkWorkers(r) : RkAppend(r, i)
  \/ \E r \in Readers : \E i \in RkWorkers(r) : RkFirst(r, i) /\ RkExit(r, i)
  \/ \E r \in Readers : RkReturn(r)
  \/ \E r \in Readers : SaDispatch(r)
  \/ \E r \in Readers : \E i \in SaWorkers(r) : SaFirst(r, i) /\ SaFetch(r, i)
  \/ \E r \in Readers : \E i \in SaWorkers(r) : SaFirst(r, i) /\ SaLock(r, i)
  \/ \E r \in Readers : \E i \in SaWorkers(r) : SaMerge(r, i)
  \/ \E r \in Readers : \E i \in SaWorkers(r) : SaFirst(r, i) /\ SaExit(r, i)
  \/ \E r \in Readers : SaReturn(r)

SpecFanOutLive ==
  InitFanOutStages /\ [][NextFanOutStages]_vars /\ WF_vars(NextFanOutStages)

(***************************************************************************)
(* SpecFavorites: the query of reader 1's favorite authors, on a users     *)
(* table whose one row (id 1) holds any fauthors text of at most MaxChars  *)
(* characters, for the known reader 1 and for the unknown reader 7.        *)
(***************************************************************************)
FauthorsChars == {"a", " ", ";"}

FauthorsTexts == SeqsUpTo(FauthorsChars, MaxChars)

InitFavorites ==
  /\ ctxDone = FALSE
  /\ ResolveIdle
  /\ AggIdle
  /\ user1IDStr \in {"1", "7"}
  /\ user2IDStr = "2"
  /\ \E text \in FauthorsTexts : db = (1 :> text)
  /\ hPc = "collect"
  /\ hI = 0
  /\ gPc = [r \in Readers |-> IF r = 1 THEN "start" ELSE "off"]
  /\ resultsCh = <<>>
  /\ user1Subjects = Nil
  /\ user2Subjects = Nil
  /\ commonSubject = <<>>
  /\ recommendedBooks = <<>>
  /\ written = <<>>
  /\ BooksIdle

NextFavorites == \E r \in Readers : GGetAuthors(r)

SpecFavorites == InitFavorites /\ [][NextFavorites]_vars

(***************************************************************************)
(* SpecBooksLive: the request from the call of GetRecommendedBooks on, on  *)
(* a subject response of more works than workers (their work-detail        *)
(* requests all failing) or of two works (answered in any way), when every *)
(* goroutine that can take a step takes one and every catalog request      *)
(* returns.  The deadline can elapse at any moment, or never.              *)
(***************************************************************************)
InitBooksLive ==
  /\ ctxDone = FALSE
  /\ ResolveIdle
  /\ AggIdle
  /\ user1IDStr = "1"
  /\ user2IDStr = "2"
  /\ db = Users
  /\ hPc = "booksWait"
  /\ hI = 2
  /\ gPc = [r \in Readers |-> "done"]
  /\ resultsCh = <<>>
  /\ user1Subjects = Some(<<"s", "f">> :> 1)
  /\ user2Subjects = Some(<<"s", "f">> :> 1)
  /\ commonSubject = <<"s", "f">>
  /\ recommendedBooks = <<>>
  /\ written = <<>>
  /\ bkPc = "subject"
  /\ bkRet = NoBooks
  /\ \/ \E k \in Over :
          bkResp = [err |-> FALSE, works |-> [i \in 1..(NumWorkers + k) |-> BookRecent],
                    descs |-> {DescDoError}]
     \/ bkResp = [err |-> FALSE, works |-> <<BookRecent, BookReissued>>,
                  descs |-> DescResponsesCore]
  /\ bkWorks = <<>>
  /\ bkIdx = 1
  /\ bkJobs = <<>>
  /\ bkJobsClosed = FALSE
  /\ bkInflight = {}
  /\ bkActive = 0
  /\ bkResults = <<>>
  /\ bkErrCh = {}

\* the steps of the call and of the handler that waits for it
BooksStep ==
  \/ BkFetchSubject
  \/ BkEnqueue
  \/ BkCloseJobs
  \/ BkTake
  \/ \E f \in bkInflight : BkDescribe(f)
  \/ \E f \in bkInflight : BkSend(f)
  \/ \E f \in bkInflight : BkAbandon(f)
  \/ BkWorkerExit
  \/ BkReturn
  \/ HRespond

NextBooksLive == BooksStep \/ Deadline

SpecBooksLive == InitBooksLive /\ [][NextBooksLive]_vars /\ WF_vars(BooksStep)

(***************************************************************************)
(* Properties of RecommendationsHandler.                                   *)
(***************************************************************************)
\* the strings that are integers
IntegerParams == {"1", "2", "7"}

ValidParams == user1IDStr \in IntegerParams /\ user2IDStr \in IntegerParams

\* the reader's ID is an integer that the user store has no row for
UnknownReader(r) == UserIDStr(r) = "7"

\* C17: when a reader ID is unknown to the user store (and no catalog call
\* of the other reader failed, and the deadline did not end the request),
\* the request ends with 404 and no catalog call is made for that reader.
C17_UnknownReaderIs404 ==
  (/\ hPc = "done"
   /\ ValidParams
   /\ \E r \in Readers : UnknownReader(r)
   /\ \A r \in Readers : rkErrCh[r] = <<>> /\ saErrCh[r] = <<>>
   /\ written # <<StatusGatewayTimeout>>) =>
    /\ written = <<StatusNotFound>>
    /\ \A r \in Readers : UnknownReader(r) => rkPc[r] = "idle" /\ saPc[r] = "idle"

\* C18: when user1 or user2 is missing or is not an integer, the request
\* ends with 400, no reader goroutine is started, and neither the user store
\* nor the catalog is called.
C18_BadParamsAre400 ==
  (~ValidParams /\ hPc # "start") =>
    /\ hPc = "done"
    /\ written = <<StatusBadRequest>>
    /\ \A r \in Readers : gPc[r] = "off" /\ rkPc[r] = "idle" /\ saPc[r] = "idle"
    /\ bkPc = "idle"

\* user1 is not an integer, user2 is: 400
C18_Witness ==
  /\ user1IDStr = "abc"
  /\ user2IDStr = "1"
  /\ hPc = "done"
  /\ written = <<StatusBadRequest>>

\* C19: a request whose deadline has elapsed while it was resolving authors,
\* aggregating subjects, selecting or fetching books ends with 504 and with
\* no other status.
C19_DeadlineIs504 ==
  [][(/\ ctxDone
      /\ hPc \in {"collect", "select", "books", "booksWait"}
      /\ hPc' = "done") => written' = <<StatusGatewayTimeout>>]_vars

\* C20: every request eventually ends, with exactly one response.
C20_RequestEnds == <>[](hPc = "done" /\ Len(written) = 1)

\* the handler has returned on the elapsed deadline while a search request
\* of a reader was still unanswered
C20_Witness ==
  /\ hPc = "done"
  /\ written = <<StatusGatewayTimeout>>
  /\ \E r \in Readers : \E i \in RkWorkers(r) : rkWorker[r][i].pc = "fetch"

\* every search of the reader's names was answered with no candidate
ResolvesToNone(r) ==
  /\ rkPc[r] = "ret"
  /\ \A i \in RkWorkers(r) : ~rkResp[r][i].err /\ rkResp[r][i].docs = <<>>

\* no catalog call of the reader failed
NoFailure(r) == rkErrCh[r] = <<>> /\ saErrCh[r] = <<>>

\* C21: when the names of a reader resolve to zero authors (the other
\* reader's catalog calls succeeding, the deadline not ending the request),
\* the request ends with 404 and GetSubjectAuthorCounts is never called for
\* that reader.
C21_ZeroAuthorsIs404 ==
  (/\ hPc = "done"
   /\ \E r \in Readers : ResolvesToNone(r)
   /\ \A r \in Readers : ResolvesToNone(r) \/ NoFailure(r)
   /\ written # <<StatusGatewayTimeout>>) =>
    /\ written = <<StatusNotFound>>
    /\ \A r \in Readers : ResolvesToNone(r) => saPc[r] = "idle"

\* the handler is at, or past, its call of FindMostCommonSubject
Selecting == hPc \in {"select", "books", "booksWait"}

\* C22: FindMostCommonSubject is called only after both reader goroutines
\* have delivered a successful result, and its two arguments are the
\* aggregates of the two different readers, in either order: none is unset
\* and none is used twice.
C22_SelectsOverBothAggregates ==
  Selecting =>
    /\ \A r \in Readers : gPc[r] = "done" /\ saPc[r] = "ret" /\ ~saRet[r].err
    /\ user1Subjects # Nil
    /\ user2Subjects # Nil
    /\ \/ user1Subjects = saRet[1].Aggregate /\ user2Subjects = saRet[2].Aggregate
       \/ user1Subjects = saRet[2].Aggregate /\ user2Subjects = saRet[1].Aggregate

\* the result of reader 2 arrived first: user1Subjects holds its aggregate
C22_Witness ==
  /\ hPc = "select"
  /\ saRet[1].Aggregate # saRet[2].Aggregate
  /\ user1Subjects = saRet[2].Aggregate
  /\ user2Subjects = saRet[1].Aggregate

\* the position of the handler in the order of the stages
HandlerRank(pc) ==
  CASE pc = "off" -> 0
    [] pc = "start" -> 1
    [] pc = "collect" -> 2
    [] pc = "select" -> 3
    [] pc = "books" -> 4
    [] pc = "booksWait" -> 5
    [] pc = "done" -> 6

\* the position of a reader goroutine in the order of its stages
ReaderRank(pc) ==
  CASE pc = "off" -> 0
    [] pc = "start" -> 1
    [] pc = "resolve" -> 2
    [] pc = "aggregate" -> 3
    [] pc = "done" -> 4

\* FindMostCommonSubject has returned commonSubject without error
SubjectSelected ==
  \E ret \in FindMostCommonSubject(MapOf(user1Subjects), MapOf(user2Subjects)) :
    ~ret.err /\ ret.subject = commonSubject

\* what holds in every state of the order of the stages
StagesInOrder ==
  /\ \A r \in Readers : saPc[r] # "idle" => rkPc[r] = "ret" /\ ~rkRet[r].err
  /\ hPc \in {"books", "booksWait"} => SubjectSelected
  /\ bkPc # "idle" => SubjectSelected /\ hPc \in {"booksWait", "done"}
  /\ written = <<StatusOK>> =>
       bkPc = "ret" /\ ~bkRet.err /\ recommendedBooks = bkRet.books
  /\ hPc = "done" <=> Len(written) = 1
  /\ Len(written) <= 1

\* what holds of every step
StagesStepInOrder ==
  /\ HandlerRank(hPc') >= HandlerRank(hPc)
  /\ \A r \in Readers : ReaderRank(gPc'[r]) >= ReaderRank(gPc[r])
  /\ bkPc' = "subject" /\ bkPc # "subject" => bkPc = "idle" /\ hPc = "books"
  /\ bkPc # "idle" => bkPc' # "idle"
  /\ hPc = "done" =>
       /\ hPc' = "done"
       /\ UNCHANGED <<written, commonSubject, recommendedBooks, bkPc, bkRet>>

\* C23: per request the stages occur only in the order authors fetched,
\* authors resolved, subjects aggregated, subject selected, books fetched,
\* completed: GetRecommendedBooks is called at most once and only after
\* FindMostCommonSubject succeeded, 200 is sent only after GetRecommendedBooks
\* succeeded, and once the request has ended the handler starts no stage.
C23_StagesInOrder == []StagesInOrder /\ [][StagesStepInOrder]_vars

\* a request that went through every stage
C23_Witness ==
  /\ hPc = "done"
  /\ written = <<StatusOK>>
  /\ SubjectSelected
  /\ Len(recommendedBooks) > 0

(***************************************************************************)
(* Properties of the fan-out stages.                                       *)
(***************************************************************************)
\* the search requests of a ResolveAuthorKeys call that are in flight
RkInFlight(r) == {i \in RkWorkers(r) : rkWorker[r][i].pc = "fetch"}

\* the works requests of a GetSubjectAuthorCounts call that are in flight
SaInFlight(r) == {i \in SaWorkers(r) : saWorker[r][i].pc = "fetch"}

\* the work-detail requests of a GetRecommendedBooks call that are in flight
BkInFlight == {f \in bkInflight : f.stage = "fetch"}

C24_WitnessAgg ==
  /\ Len(saAuthors[1]) > SubjectConcurrency
  /\ Cardinality(SaInFlight(1)) = SubjectConcurrency

C24_WitnessBooks ==
  /\ Len(bkWorks) > NumWorkers
  /\ Cardinality(BkInFlight) = NumWorkers
  /\ Len(bkJobs) > 0

\* the goroutines of a call that are writing its shared accumulator
RkWriters(r) == {i \in RkWorkers(r) : rkWorker[r][i].pc = "append"}

SaWriters(r) == {i \in SaWorkers(r) : saWorker[r][i].pc = "merge"}

\* the goroutines of a call that have not returned
RkRunning(r) == {i \in RkWorkers(r) : rkWorker[r][i].pc \notin {"none", "done"}}

SaRunning(r) == {i \in SaWorkers(r) : saWorker[r][i].pc \notin {"none", "done"}}

\* C25: once ResolveAuthorKeys, GetSubjectAuthorCounts or GetRecommendedBooks
\* has returned, no worker goroutine of the call is running and what was
\* returned is what the accumulator holds; while workers run, at most one
\* is writing the shared accumulator, and it holds the mutex.
C25_NoWriterAfterReturn ==
  /\ \A r \in Readers :
       /\ Cardinality(RkWriters(r)) <= 1
       /\ \A i \in RkWriters(r) : rkMu[r] = i
       /\ rkPc[r] = "ret" =>
            /\ RkRunning(r) = {}
            /\ rkIdx[r] > Len(rkAuthors[r])
            /\ ~rkRet[r].err => rkRet[r].authors = authorKeys[r]
  /\ \A r \in Readers :
       /\ Cardinality(SaWriters(r)) <= 1
       /\ \A i \in SaWriters(r) : saMu[r] = i
       /\ saPc[r] = "ret" =>
            /\ SaRunning(r) = {}
            /\ saIdx[r] > Len(saAuthors[r])
            /\ ~saRet[r].err =>
                 /\ saRet[r].Aggregate = Some(subjectAuthorCount[r])
                 /\ saRet[r].PerAuthor = Some(perAuthorSubjects[r])
  /\ bkPc = "ret" => bkActive = 0 /\ bkInflight = {}

\* a goroutine writes authorKeys under the mutex while another waits for it
C25_Witness ==
  \E i, j \in RkWorkers(1) :
    /\ rkWorker[1][i].pc = "append"
    /\ rkWorker[1][j].pc = "lock"
    /\ rkMu[1] = i

(***************************************************************************)
(* Properties of GetUserFavoriteAuthors.                                   *)
(***************************************************************************)
\* the places of the separators of a text, in order, between 0 and Len + 1
RECURSIVE SeparatorsFrom(_, _)
SeparatorsFrom(text, i) ==
  IF i > Len(text) THEN <<Len(text) + 1>>
  ELSE IF text[i] = ";" THEN <<i>> \o SeparatorsFrom(text, i + 1)
  ELSE SeparatorsFrom(text, i + 1)

Separators(text) == <<0>> \o SeparatorsFrom(text, 1)

\* the k-th stored name: what stands between two successive separators
StoredName(text, k) ==
  SubSeq(text, Separators(text)[k] + 1, Separators(text)[k + 1] - 1)

StoredCount(text) == Len(Separators(text)) - 1

\* name is stored without the white space around it
IsTrimOf(name, stored) ==
  /\ name = <<>> \/ (name[1] # " " /\ name[Len(name)] # " ")
  /\ \E a, b \in 0..Len(stored) :
       /\ stored = [i \in 1..a |-> " "] \o name \o [i \in 1..b |-> " "]

\* reader 1's goroutine has made its query
Queried == gPc[1] # "start"

\* C26: for a known reader GetUserFavoriteAuthors returns at most 5 names,
\* the first five of the stored list in stored order, each without the white
\* space around it; for an unknown reader it returns an error and no name.
C26_FirstFiveTrimmedInOrder ==
  Queried =>
    IF user1IDStr = "1"
    THEN /\ rkPc[1] = "loop"
         /\ resultsCh = <<>>
         /\ Len(rkAuthors[1]) <= FavoriteLimit
         /\ Len(rkAuthors[1]) = IF StoredCount(db[1]) < FavoriteLimit
                                THEN StoredCount(db[1]) ELSE FavoriteLimit
         /\ \A k \in 1..Len(rkAuthors[1]) : IsTrimOf(rkAuthors[1][k], StoredName(db[1], k))
    ELSE /\ rkPc[1] = "idle"
         /\ rkAuthors[1] = <<>>
         /\ resultsCh = <<ErrResult>>

\* a row of six stored names, one of the first five with white space around
\* it: five names are returned
C26_Witness ==
  /\ Queried
  /\ user1IDStr = "1"
  /\ StoredCount(db[1]) > FavoriteLimit
  /\ Len(rkAuthors[1]) = FavoriteLimit
  /\ \E k \in 1..FavoriteLimit : rkAuthors[1][k] # StoredName(db[1], k)

(***************************************************************************)
(* Properties of the response.                                             *)
(***************************************************************************)
\* C27: a 200 response is never partial or empty: it carries between 1 and
\* 3 works, and these were chosen among all the qualifying works of the
\* subject response (here: no work-detail request having failed), never
\* among only those a worker had delivered when the deadline elapsed.
C27_OkIsComplete ==
  (written = <<StatusOK>> /\ bkErrCh = {}) =>
    /\ Len(recommendedBooks) \in 1..TopBooks
    /\ ResultTitles = Candidates

(***************************************************************************)
(* Properties of the secondary output of GetSubjectAuthorCounts.           *)
(***************************************************************************)
\* the subjects listed for a name (a missing key reads as the nil slice)
ListedFor(perAuthor, name) ==
  IF name \in DOMAIN perAuthor THEN perAuthor[name] ELSE <<>>

SubjectsListedFor(perAuthor, name) ==
  {ListedFor(perAuthor, name)[k] : k \in 1..Len(ListedFor(perAuthor, name))}

\* C28: in a successful result PerAuthor maps the name of each input author
\* to exactly that author's normalized subjects, each listed once, and
\* Aggregate[s] is the number of names whose list contains s, also when two
\* input authors have the same name.
C28_PerAuthorMatchesAggregate ==
  (saPc[1] = "ret" /\ ~saRet[1].err) =>
    LET perAuthor == Val(saRet[1].PerAuthor)
        aggregate == Val(saRet[1].Aggregate)
    IN /\ \A i \in SaWorkers(1) :
            /\ SubjectsListedFor(perAuthor, saAuthors[1][i].Name) = saWorker[1][i].subjectsSet
            /\ Len(ListedFor(perAuthor, saAuthors[1][i].Name)) =
                 Cardinality(saWorker[1][i].subjectsSet)
       /\ \A s \in DOMAIN aggregate :
            aggregate[s] = Cardinality({n \in DOMAIN perAuthor : s \in SubjectsListedFor(perAuthor, n)})

(***************************************************************************)
(* The ranking year of GetRecommendedBooks.                                *)
(***************************************************************************)
\* the year sort.Slice compares: the FirstPublishYear of the returned Work
RankingYear(work) == work.FirstPublishYear

\* C29: the year a returned work is ranked by is a year that qualified it as
\* in print: it lies between currentYear-2 and currentYear.
C29_RankingYearQualifies ==
  Returned => \A k \in 1..Len(bkRet.books) : InWindow(RankingYear(bkRet.books[k]))

(***************************************************************************)
(* Termination of ResolveAuthorKeys and GetSubjectAuthorCounts.            *)
(***************************************************************************)
\* errCh never holds more than its capacity len(authors): no send blocks
ErrChWithinCapacity ==
  \A r \in Readers :
    /\ Len(rkErrCh[r]) <= Len(rkAuthors[r])
    /\ Len(saErrCh[r]) <= Len(saAuthors[r])

\* the calls that were made have returned, every slot given back and the
\* wait group at zero
StagesReturned ==
  \A r \in Readers :
    /\ rkPc[r] # "idle" => rkPc[r] = "ret" /\ rkSem[r] = 0 /\ rkWg[r] = 0
    /\ saPc[r] # "idle" => saPc[r] = "ret" /\ saSem[r] = 0 /\ saWg[r] = 0

\* C30: ResolveAuthorKeys and GetSubjectAuthorCounts terminate when every
\* catalog call returns, also on more items than the concurrency limit:
\* every slot taken by the dispatch loop is given back on every exit path of
\* a goroutine, no send on errCh blocks, and the wait group reaches zero.
C30_StagesTerminate == []ErrChWithinCapacity /\ <>[]StagesReturned

\* a call on more names than the limit, every search failing, has returned:
\* errCh is full, every slot is free
C30_Witness ==
  /\ Len(rkAuthors[1]) > ResolveConcurrency
  /\ rkPc[1] = "ret"
  /\ Len(rkErrCh[1]) = Len(rkAuthors[1])
  /\ rkSem[1] = 0
  /\ rkWg[1] = 0

(***************************************************************************)
(* Termination of GetRecommendedBooks.                                     *)
(***************************************************************************)
\* jobs, results and errCh never hold more than their capacity
\* len(subjectResult.Works): no send on them blocks
BooksChannelsWithinCapacity ==
  /\ Len(bkJobs) <= Len(bkWorks)
  /\ Len(bkResults) <= Len(bkWorks)
  /\ Cardinality(bkErrCh) <= Len(bkWorks)

\* the step in which results and errCh are closed and read to their end is
\* taken once, after the last worker has exited
BooksClosedAfterWorkers ==
  /\ (bkPc # "ret" /\ bkPc' = "ret") => (bkActive = 0 /\ bkInflight = {})
  /\ bkPc = "ret" => bkPc' = "ret" /\ UNCHANGED <<bkRet, bkResults, bkErrCh, bkActive>>

\* C31: the worker-pool GetRecommendedBooks terminates when every catalog
\* call returns, for any number of candidate works and also when the context
\* is cancelled mid-run: no send on jobs, results or errCh blocks, every
\* worker exits, results and errCh are closed once after the last worker
\* exited, and the call returns.
C31_BooksTerminate ==
  /\ []BooksChannelsWithinCapacity
  /\ [][BooksClosedAfterWorkers]_vars
  /\ <>[](bkPc = "ret" /\ bkActive = 0 /\ bkInflight = {})

\* the call has returned after the deadline elapsed mid-run and a worker
\* left with its work unsent
C31_Witness ==
  /\ bkPc = "ret"
  /\ ctxDone
  /\ bkErrCh = {}
  /\ Cardinality(ResultTitles) < Cardinality(Candidates)

(***************************************************************************)
(* The outcomes of the jobs of GetRecommendedBooks.                        *)
(***************************************************************************)
\* the jobs that are still in the jobs channel
QueuedTitles == {bkJobs[k].Title : k \in 1..Len(bkJobs)}

\* the jobs a worker has taken and is done with
FinishedTitles ==
  (Candidates \cap 1..(bkIdx - 1)) \ (QueuedTitles \cup {f.job.Title : f \in bkInflight})

\* C32: every job taken from jobs produces exactly one outcome, one Work on
\* results or one error on errCh, never both and never neither.
C32_OneOutcomePerJob ==
  \A t \in FinishedTitles : (t \in ResultTitles) # (t \in bkErrCh)

(***************************************************************************)
(* The sends of the reader goroutines.                                     *)
(***************************************************************************)
\* the reader goroutines that have not sent their result yet
Unsent == {r \in Readers : gPc[r] \notin {"off", "done"}}

\* resultsCh has room for the result of every goroutine that has yet to send
RoomForEverySend == Len(resultsCh) + Cardinality(Unsent) <= ResultsChCap

\* a goroutine sends one value in the step in which it ends, and no value
\* is sent in any other step
OneSendPerReader ==
  LET ending == {r \in Readers : gPc[r] # "done" /\ gPc'[r] = "done"} IN
  /\ Cardinality(ending) <= 1
  /\ ending # {} => resultsCh' = Append(resultsCh, resultsCh'[Len(resultsCh')])
  /\ ending = {} => Len(resultsCh') <= Len(resultsCh)
  /\ \A r \in Readers : gPc[r] = "done" => gPc'[r] = "done"

\* C33: each reader goroutine sends exactly one value on resultsCh on every
\* path and never blocks on that send, also when the handler has already
\* returned: no goroutine stays blocked after the request has ended.
C33_OneSendNeverBlocked ==
  /\ []RoomForEverySend
  /\ [][OneSendPerReader]_vars
  /\ <>[](Unsent = {})

\* the handler has returned on the deadline and both goroutines have sent
\* their result afterwards
C33_Witness ==
  /\ hPc = "done"
  /\ written = <<StatusGatewayTimeout>>
  /\ Unsent = {}
  /\ Len(resultsCh) = ResultsChCap

(***************************************************************************)
(* The HTTP outcome of a request.                                          *)
(***************************************************************************)
Statuses ==
  {StatusOK, StatusBadRequest, StatusNotFound, StatusInternalServerError, StatusGatewayTimeout}

\* at most one status is written, one of the five, and the handler has
\* returned exactly when it is written; a body goes with 200 only
OneOutcome ==
  /\ written = <<>> \/ \E status \in Statuses : written = <<status>>
  /\ written # <<>> <=> hPc = "done"
  /\ recommendedBooks # <<>> => written = <<StatusOK>>

\* once a status is written nothing more is written
OutcomeIsFinal == written # <<>> => UNCHANGED <<written, recommendedBooks, hPc>>

\* C34: RecommendationsHandler writes exactly one HTTP outcome per request,
\* one of 200, 400, 404, 500 and 504, and after an error status is written
\* no further status or body is written.
C34_ExactlyOneOutcome == []OneOutcome /\ [][OutcomeIsFinal]_vars

\* 500 is written for the error of one reader while the goroutine of the
\* other reader is still running
C34_Witness ==
  /\ written = <<StatusInternalServerError>>
  /\ hPc = "done"
  /\ \E r \in Readers : gPc[r] \in {"resolve", "aggregate"}

(***************************************************************************)
(* The outcomes of the names of ResolveAuthorKeys.                         *)
(***************************************************************************)
\* the names whose search failed or found no candidate
FailedNames(r) ==
  {i \in RkWorkers(r) : ctxDone \/ rkResp[r][i].err \/ rkResp[r][i].docs = <<>>}

\* C35: in ResolveAuthorKeys every input name gives exactly one outcome, an
\* author appended or an error recorded; the call returns an error exactly
\* when a name failed, and then no authors; without error the result has one
\* entry per input name.
C35_OneOutcomePerName ==
  \A r \in Readers :
    rkPc[r] = "ret" =>
      /\ Len(rkErrCh[r]) = Cardinality(FailedNames(r))
      /\ Len(authorKeys[r]) = Len(rkAuthors[r]) - Cardinality(FailedNames(r))
      /\ \A i \in RkWorkers(r) : rkWorker[r][i].failed <=> i \in FailedNames(r)
      /\ rkRet[r].err <=> FailedNames(r) # {}
      /\ rkRet[r].err => rkRet[r].authors = <<>>
      /\ ~rkRet[r].err => Len(rkRet[r].authors) = Len(rkAuthors[r])

\* a call of two names has returned, one name resolved and one failed
C35_Witness ==
  /\ rkPc[1] = "ret"
  /\ Len(rkAuthors[1]) = 2
  /\ Len(rkErrCh[1]) = 1
  /\ Len(authorKeys[1]) = 1
  /\ rkRet[1].err

(***************************************************************************)
(* FindMostCommonSubject on the subject "", on weights 0, and on its       *)
(* arguments exchanged.                                                    *)
(***************************************************************************)
\* C36: FindMostCommonSubject returns no error exactly when the two maps
\* share at least one key, and the subject it then returns is a shared key;
\* also when a shared key is "" and when every shared key has combined
\* weight 0.
C36_ErrorOnlyWithoutSharedKey ==
  /\ hPc = "done" => SharedKeys = {}
  /\ hPc = "books" => commonSubject \in SharedKeys

\* C37: FindMostCommonSubject(a, b) and FindMostCommonSubject(b, a) return
\* the same subject, or both the error: whatever the call on the two
\* aggregates returned, the call on the exchanged aggregates returns it too.
C37_ExchangedCallAgrees ==
  \A ret \in FindMostCommonSubject(MapOf(user2Subjects), MapOf(user1Subjects)) :
    /\ hPc = "books" => ~ret.err /\ ret.subject = commonSubject
    /\ hPc = "done" => ret.err

====
